---------------------------- MODULE Spec2Model ----------------------------
(***************************************************************************)
(* TripSplit backend: the expense engine, the payment state machine, the   *)
(* balance calculator, the settlement planner, the trip-invite and the     *)
(* friend controllers, modelled from the JavaScript controllers.           *)
(*                                                                         *)
(* Money.  The controllers receive JSON numbers and round them to cents    *)
(* with round2 / toCents.  Request amounts are modelled in MILLS (tenths   *)
(* of a cent, 10.005 dollars = 10005 mills) so that the rounding is a real *)
(* computation; stored amounts are modelled in CENTS.  IEEE-754 noise of   *)
(* the JavaScript doubles below one mill is not modelled: arithmetic is    *)
(* exact on mills and cents.  The one place where the rounding of a double *)
(* decides an outcome is the remainder sort of allocateProportionally, and *)
(* there the rounding error is computed.                                   *)
(*                                                                         *)
(* Concurrency.  Every handler is an async function; each awaited prisma   *)
(* call is one atomic step of the data store, and steps of different       *)
(* requests interleave freely.  prisma.$transaction([...]) is one step.    *)
(***************************************************************************)
EXTENDS Integers, Sequences, FiniteSets, TLC

VARIABLES
    members,        \* TripMember rows of the trip, in insertion order
    expenses,       \* Expense rows of the trip, with their child rows
    payments,       \* Payment rows of the trip, by id = position
    reqs,           \* requests in flight between their read and their write
    lastResp,       \* the kind of the response a handler sent last
    tripInvites,    \* TripInvite rows of the trip, by id = position
    friends,        \* Friend rows: the set of (userId, friendId) pairs
    friendInvites,  \* FriendInvite rows, by id = position
    expReq,         \* one createExpense request: [caller, body, failAt, done, ...]
    planCall,       \* one run of the settlement planner: [bal, out, done]
    allocCall,      \* one call of allocateProportionally: [in, pool, out, done]
    feed,           \* Expense and Payment rows of all trips with their createdAt,
                    \* and the last GET /activity: [expenses, payments, caller, out, done]
    trips,          \* Trip rows by id = position, and the last createTrip / updateTrip
                    \* request with its answer: [rows, req, status]
    receipt,        \* one POST /receipts/process request: [rawTextOk, rule, llm, done, ...]
    itemCall,       \* one pass of the per-item split of createExpense: [price, ids, out, done]
    readResp,       \* the last trip-scoped read and its answer: [op, userId, status, body]
    chooseCall,     \* one call of choosePricesToMatchTarget: [prices, target, out, done]
    client          \* the mobile client: in-memory token, secure store, user

ledgerVars == <<members, expenses, payments, reqs, lastResp>>
sideVars == <<trips, receipt, itemCall, readResp, chooseCall, client>>
coreVars == <<members, expenses, payments, reqs, lastResp, tripInvites, friends,
              friendInvites, expReq, allocCall, planCall, feed>>
fnVars == <<expReq, allocCall, planCall, feed, sideVars>>
socialVars == <<tripInvites, friends, friendInvites>>
vars == <<members, expenses, payments, reqs, lastResp, tripInvites, friends,
          friendInvites, expReq, allocCall, planCall, feed, sideVars>>

-----------------------------------------------------------------------------
(* Users of the system (rows of the User table), in a fixed order that     *)
(* stands for the order in which the store returns member rows.            *)
UserOrder == <<"alice", "bob", "carol", "dave">>
Users == {UserOrder[i] : i \in 1..Len(UserOrder)}

\* Generic helpers ----------------------------------------------------------
Range(s) == {s[i] : i \in 1..Len(s)}

RECURSIVE SumSeq(_)
SumSeq(s) == IF s = <<>> THEN 0 ELSE Head(s) + SumSeq(Tail(s))

RECURSIVE SumSet(_, _)
\* Sum of f[x] over the finite set S
SumSet(f, S) ==
    IF S = {} THEN 0
    ELSE LET x == CHOOSE y \in S : TRUE IN f[x] + SumSet(f, S \ {x})

Abs(n) == IF n < 0 THEN -n ELSE n
Min(a, b) == IF a <= b THEN a ELSE b

\* Injective sequences of length n over the set S
InjSeqs(S, n) == {s \in [1..n -> S] : \A i, j \in 1..n : i # j => s[i] # s[j]}

-----------------------------------------------------------------------------
(*                              Money primitive                            *)

\* round2(n) = Math.round((n + EPSILON) * 100) / 100 : mills -> cents, half up
round2(mills) == (mills + 5) \div 10

\* toCents(n) = Math.round((n + EPSILON) * 100) : mills -> cents, half up
toCents(mills) == (mills + 5) \div 10

\* fromCents(c) = c / 100 : cents -> mills (a dollar amount with two decimals)
fromCents(c) == c * 10

-----------------------------------------------------------------------------
(*                                 Allocator                               *)
(* A JavaScript Map is a sequence of <<userId, cents>> entries in          *)
(* insertion order with distinct keys.                                     *)

Keys(entries) == {entries[i][1] : i \in 1..Len(entries)}

\* Map.get(userId) || 0
MapGet(entries, u) ==
    IF \E i \in 1..Len(entries) : entries[i][1] = u
    THEN entries[CHOOSE i \in 1..Len(entries) : entries[i][1] = u][2]
    ELSE 0

\* Map.set(userId, v): overwrite in place, or append
MapSet(entries, u, v) ==
    IF \E i \in 1..Len(entries) : entries[i][1] = u
    THEN [i \in 1..Len(entries) |->
            IF entries[i][1] = u THEN <<u, v>> ELSE entries[i]]
    ELSE Append(entries, <<u, v>>)

RECURSIVE SumEntries(_)
SumEntries(entries) ==
    IF entries = <<>> THEN 0 ELSE Head(entries)[2] + SumEntries(Tail(entries))

\* exact = (allocCents * subCents) / total is an IEEE double: the quotient a/b
\* rounded to 53 significant bits.  With n = a \div b and r = a % b the
\* double is (a + err/2^scale)/b, where 2^scale shifts a/b into
\* [2^52, 2^53) and err in (-b/2, b/2] is what rounding to the nearest
\* integer (ties to even) adds to the numerator.  Only 2^scale mod b and
\* mod 2b are needed, so nothing grows beyond the size of b * b.
RECURSIVE PowMod2(_, _)
PowMod2(k, m) == IF k = 0 THEN 1 % m ELSE (2 * PowMod2(k - 1, m)) % m

RECURSIVE Pow2(_)
Pow2(k) == IF k = 0 THEN 1 ELSE 2 * Pow2(k - 1)

RECURSIVE Log2Floor(_)
Log2Floor(n) == IF n < 2 THEN 0 ELSE 1 + Log2Floor(n \div 2)

RECURSIVE ShiftsToOne(_, _)
ShiftsToOne(r, b) == IF r >= b THEN 0 ELSE 1 + ShiftsToOne(2 * r, b)

DoubleScale(a, b) ==
    IF a % b = 0 THEN 52
    ELSE IF a \div b >= 1 THEN 52 - Log2Floor(a \div b)
    ELSE 52 + ShiftsToOne(a % b, b)

DoubleErr(a, b) ==
    IF a % b = 0 THEN 0
    ELSE LET k == DoubleScale(a, b)
             t == ((a % b) * PowMod2(k, b)) % b
             odd == ((a % b) * PowMod2(k, 2 * b)) % (2 * b) >= b
         IN  IF 2 * t < b THEN 0 - t
             ELSE IF 2 * t > b THEN b - t
             ELSE IF odd THEN b - t ELSE 0 - t

\* raw = entries.map(...): floor = Math.floor(exact) and rem = exact - floor,
\* a subtraction that is exact.  rem is kept as the numerator of rem/total
\* together with the rounding error of exact.
AllocRaw(entries, allocCents, total) ==
    [i \in 1..Len(entries) |->
        [userId |-> entries[i][1],
         floor  |-> (allocCents * entries[i][2]) \div total,
         rem    |-> (allocCents * entries[i][2]) % total,
         err    |-> DoubleErr(allocCents * entries[i][2], total),
         scale  |-> DoubleScale(allocCents * entries[i][2], total)]]

\* a.rem >= b.rem as doubles: remainders that differ as fractions differ by
\* at least 1/total, far more than a rounding error; equal fractions are
\* ordered by their rounding errors
RemGeq(x, y) ==
    IF x.rem # y.rem THEN x.rem > y.rem
    ELSE LET low == Min(x.scale, y.scale)
         IN  x.err * Pow2(y.scale - low) >= y.err * Pow2(x.scale - low)

\* Array.prototype.sort is stable: insert x after every element that does
\* not compare strictly after it.
RECURSIVE InsertByRemDesc(_, _)
InsertByRemDesc(sorted, x) ==
    IF sorted = <<>> THEN <<x>>
    ELSE IF RemGeq(Head(sorted), x)
         THEN <<Head(sorted)>> \o InsertByRemDesc(Tail(sorted), x)
         ELSE <<x>> \o sorted

RECURSIVE SortByRemDesc(_)
\* raw.sort((a, b) => b.rem - a.rem)
SortByRemDesc(raw) ==
    IF raw = <<>> THEN <<>>
    ELSE InsertByRemDesc(SortByRemDesc(SubSeq(raw, 1, Len(raw) - 1)), raw[Len(raw)])

RECURSIVE SumFloors(_)
SumFloors(raw) == IF raw = <<>> THEN 0 ELSE Head(raw).floor + SumFloors(Tail(raw))

RECURSIVE MutAllocLoopNoSpread(_, _, _)
MutAllocLoopNoSpread(raw, remaining, out) ==
    \* no entry gets an extra cent in the loop: all of the remainder is left
    \* for the first entry
    IF raw = <<>> THEN <<out, remaining>>
    ELSE MutAllocLoopNoSpread(Tail(raw), remaining,
                              MapSet(out, Head(raw).userId, Head(raw).floor))

\* for (i ...) { add = remaining > 0 ? 1 : 0; out.set(...); remaining -= add }
\* returns <<out, remaining>>
RECURSIVE AllocLoop(_, _, _)
AllocLoop(raw, remaining, out) ==
    IF raw = <<>> THEN <<out, remaining>>
    ELSE LET add == IF remaining > 0 THEN 1 ELSE 0
         IN AllocLoop(Tail(raw), remaining - add,
                      MapSet(out, Head(raw).userId, Head(raw).floor + add))

MutAllocNoRemainder(entries, allocCents) ==
    \* the remainder cents are never handed out
    LET total == SumEntries(entries)
    IN IF allocCents = 0 \/ total = 0
       THEN [i \in 1..Len(entries) |-> <<entries[i][1], 0>>]
       ELSE LET raw == AllocRaw(entries, allocCents, total)
            IN [i \in 1..Len(raw) |-> <<raw[i].userId, raw[i].floor>>]

allocateProportionally(entries, allocCents) ==
    LET total == SumEntries(entries)
    IN IF allocCents = 0 \/ total = 0
       THEN [i \in 1..Len(entries) |-> <<entries[i][1], 0>>]
       ELSE LET raw    == SortByRemDesc(AllocRaw(entries, allocCents, total))
                used   == SumFloors(raw)
                res    == AllocLoop(raw, allocCents - used, <<>>)
                out    == res[1]
                remaining == res[2]
            IN IF remaining # 0 /\ raw # <<>>
               THEN MapSet(out, raw[1].userId, MapGet(out, raw[1].userId) + remaining)
               ELSE out

-----------------------------------------------------------------------------
(*                              Expense engine                             *)
(* A request body is either                                                *)
(*   [kind |-> "splits", amount, splits : Seq([userId, share])]   or       *)
(*   [kind |-> "items", tax, tip : [type, value], items :                  *)
(*                              Seq([price, assignedUserIds])]             *)
(* with amounts in mills; tip.type is "none" when the field is absent and  *)
(* tip.value is a whole percentage or an amount in mills.                  *)

\* n/d rounded half up, for n >= 0 and d > 0
RoundDiv(n, d) == (2 * n + d) \div (2 * d)

\* createExpenseSchema.parse(req.body)
SchemaOk(body) ==
    IF body.kind = "splits"
    THEN /\ body.amount > 0
         /\ Len(body.splits) >= 1
         /\ \A i \in 1..Len(body.splits) : body.splits[i].share > 0
    ELSE /\ body.tax >= 0
         /\ body.tip.value >= 0
         /\ Len(body.items) >= 1
         /\ \A i \in 1..Len(body.items) :
               /\ body.items[i].price > 0
               /\ Len(body.items[i].assignedUserIds) >= 1

RECURSIVE SumShares(_)
\* splits.reduce((acc, s) => acc + s.share, 0)
SumShares(splits) ==
    IF splits = <<>> THEN 0 ELSE Head(splits).share + SumShares(Tail(splits))

RECURSIVE SumPrices(_)
\* items.reduce((sum, i) => sum + i.price, 0)
SumPrices(items) ==
    IF items = <<>> THEN 0 ELSE Head(items).price + SumPrices(Tail(items))

\* the (expenseId, userId) unique index of ExpenseSplit
DistinctUsers(splits) ==
    \A i, j \in 1..Len(splits) : i # j => splits[i].userId # splits[j].userId

\* one item: base = floor(priceCents/n), the first rem assignees get one more
RECURSIVE MutAddItemSharesNoRemainder(_, _, _, _)
MutAddItemSharesNoRemainder(acc, ids, base, rem) ==
    \* every assignee gets the base, the remainder cents are dropped
    IF ids = <<>> THEN acc
    ELSE MutAddItemSharesNoRemainder(
             MapSet(acc, Head(ids), MapGet(acc, Head(ids)) + base),
             Tail(ids), base, rem)

RECURSIVE AddItemShares(_, _, _, _)
AddItemShares(acc, ids, base, rem) ==
    IF ids = <<>> THEN acc
    ELSE LET add == IF rem > 0 THEN 1 ELSE 0
         IN AddItemShares(MapSet(acc, Head(ids), MapGet(acc, Head(ids)) + base + add),
                          Tail(ids), base, rem - add)

RECURSIVE SubtotalCentsByUser(_, _)
\* for (const item of items) { ... subtotalCentsByUser.set(...) }
SubtotalCentsByUser(acc, items) ==
    IF items = <<>> THEN acc
    ELSE LET priceCents == toCents(Head(items).price)
             n    == Len(Head(items).assignedUserIds)
             base == priceCents \div n
             rem  == priceCents - base * n
         IN SubtotalCentsByUser(
                AddItemShares(acc, Head(items).assignedUserIds, base, rem),
                Tail(items))

\* tipDollars, in cents
TipCents(tip, subtotal) ==
    IF tip.type = "amount" THEN round2(tip.value)
    ELSE IF tip.type = "percent" THEN RoundDiv(tip.value * subtotal, 100)
    ELSE 0

\* stable sort of the splits by per-user subtotal, descending
RECURSIVE InsertBySubDesc(_, _, _)
InsertBySubDesc(sorted, x, subs) ==
    IF sorted = <<>> THEN <<x>>
    ELSE IF MapGet(subs, Head(sorted).userId) >= MapGet(subs, x.userId)
         THEN <<Head(sorted)>> \o InsertBySubDesc(Tail(sorted), x, subs)
         ELSE <<x>> \o sorted

RECURSIVE SortBySubDesc(_, _)
SortBySubDesc(splits, subs) ==
    IF splits = <<>> THEN <<>>
    ELSE InsertBySubDesc(SortBySubDesc(SubSeq(splits, 1, Len(splits) - 1), subs),
                         splits[Len(splits)], subs)

RECURSIVE SumSplitCents(_)
\* splits.reduce((sum, s) => sum + toCents(s.share), 0), shares in mills
SumSplitCents(splits) ==
    IF splits = <<>> THEN 0
    ELSE toCents(Head(splits).share) + SumSplitCents(Tail(splits))

\* "Ensure sum(splits) == total exactly (cents), fix penny delta"
FixPennyDelta(splits, subs, totalCents) ==
    LET delta == totalCents - SumSplitCents(splits)
    IN IF delta # 0 /\ Len(splits) > 0
       THEN LET sorted == SortBySubDesc(splits, subs)
            IN [sorted EXCEPT ![1].share = fromCents(toCents(sorted[1].share) + delta)]
       ELSE splits

\* The itemized branch: the final splits, shares in mills
ItemizedSplits(items, taxC, tipC, totalC) ==
    LET subs     == SubtotalCentsByUser(<<>>, items)
        taxAlloc == allocateProportionally(subs, taxC)
        tipAlloc == allocateProportionally(subs, tipC)
        splits   == [i \in 1..Len(subs) |->
                        [userId |-> subs[i][1],
                         share  |-> fromCents(subs[i][2]
                                        + MapGet(taxAlloc, subs[i][1])
                                        + MapGet(tipAlloc, subs[i][1]))]]
    IN FixPennyDelta(splits, subs, totalC)

\* Stored rows hold cents.
SimpleRow(paidById, body) ==
    [paidById |-> paidById,
     amount   |-> round2(body.amount),
     subtotal |-> 0, tax |-> 0, tip |-> 0,
     total    |-> round2(body.amount),
     items    |-> <<>>,
     splits   |-> [i \in 1..Len(body.splits) |->
                     [userId |-> body.splits[i].userId,
                      share  |-> round2(body.splits[i].share)]]]

ItemizedRow(paidById, body) ==
    LET tax      == round2(body.tax)
        subtotal == round2(SumPrices(body.items))
        tip      == TipCents(body.tip, subtotal)
        total    == subtotal + tax + tip
        splits   == ItemizedSplits(body.items, tax, tip, total)
    IN [paidById |-> paidById,
        amount   |-> total,
        subtotal |-> subtotal, tax |-> tax, tip |-> tip,
        total    |-> total,
        items    |-> [i \in 1..Len(body.items) |->
                        [price     |-> round2(body.items[i].price),
                         assignees |-> Range(body.items[i].assignedUserIds)]],
        splits   |-> [i \in 1..Len(splits) |->
                        [userId |-> splits[i].userId,
                         share  |-> round2(splits[i].share)]]]

NoRow == [none |-> TRUE]

\* The statements that persist an expense row, in the order the code
\* issues them.  The simple path is one nested create (the Expense, then
\* each ExpenseSplit); the itemized path is an interactive transaction
\* (the Expense, then per item the ExpenseItem and its assignments, then
\* all ExpenseSplit rows with one createMany).
WriteStatements(row) ==
    IF row.items = <<>>
    THEN <<[op |-> "expense", k |-> 0]>>
         \o [k \in 1..Len(row.splits) |-> [op |-> "split", k |-> k]]
    ELSE <<[op |-> "expense", k |-> 0]>>
         \o [n \in 1..(2 * Len(row.items)) |->
                [op |-> IF n % 2 = 1 THEN "item" ELSE "assign", k |-> (n + 1) \div 2]]
         \o <<[op |-> "splits", k |-> 0]>>

\* the Expense row alone, before any child row is written
HeaderOnly(row) == [row EXCEPT !.items = <<>>, !.splits = <<>>]

\* the statement violates the unique index (expenseId, userId) of ExpenseSplit
ViolatesUnique(partial, row, st) ==
    \/ /\ st.op = "split"
       /\ \E j \in 1..Len(partial.splits) : partial.splits[j].userId = row.splits[st.k].userId
    \/ /\ st.op = "splits"
       /\ ~DistinctUsers(row.splits)

\* the rows written so far, after one more statement
ApplyStatement(partial, row, st) ==
    IF st.op = "expense" THEN HeaderOnly(row)
    ELSE IF st.op = "split" THEN [partial EXCEPT !.splits = Append(@, row.splits[st.k])]
    ELSE IF st.op = "item"
         THEN [partial EXCEPT !.items = Append(@, [row.items[st.k] EXCEPT !.assignees = {}])]
    ELSE IF st.op = "assign"
         THEN [partial EXCEPT !.items[st.k].assignees = row.items[st.k].assignees]
    ELSE [partial EXCEPT !.splits = row.splits]

RECURSIVE RunWrites(_, _, _, _, _)
\* runs the statements in order; statement number failAt (0: none) is
\* failed by the store, and a statement that violates a constraint fails
RunWrites(partial, row, stmts, n, failAt) ==
    IF stmts = <<>> THEN [ok |-> TRUE, written |-> partial]
    ELSE IF n = failAt \/ ViolatesUnique(partial, row, Head(stmts))
         THEN [ok |-> FALSE, written |-> partial]
         ELSE RunWrites(ApplyStatement(partial, row, Head(stmts)), row,
                        Tail(stmts), n + 1, failAt)

MutCommitPartial(run) ==
    \* no rollback: what was written before the failure stays
    IF run.ok THEN [status |-> 200, row |-> run.written]
    ELSE [status |-> 400, row |-> run.written]

\* the nested create and prisma.$transaction commit all the rows or, when
\* a statement throws, none; the catch block then answers 400
commit(run) ==
    IF run.ok THEN [status |-> 200, row |-> run.written]
    ELSE [status |-> 400, row |-> NoRow]

persist(row, failAt) ==
    commit(RunWrites(NoRow, row, WriteStatements(row), 1, failAt))

\* createExpense: the response status and the expense (with its child rows)
\* that is persisted, NoRow when nothing is; failAt is the statement at
\* which the store fails, 0 when it does not.
createExpenseFailing(memberIds, caller, body, failAt) ==
    IF caller \notin memberIds THEN [status |-> 403, row |-> NoRow]
    ELSE IF ~SchemaOk(body) THEN [status |-> 400, row |-> NoRow]
    ELSE IF body.kind = "splits"
    THEN IF Abs(SumShares(body.splits) - body.amount) > 10
         THEN [status |-> 400, row |-> NoRow]
         ELSE persist(SimpleRow(caller, body), failAt)
    ELSE IF \E i \in 1..Len(body.items) :
                Range(body.items[i].assignedUserIds) \ memberIds # {}
         THEN [status |-> 400, row |-> NoRow]
         ELSE persist(ItemizedRow(caller, body), failAt)

\* createExpense on a store that does not fail
createExpense(memberIds, caller, body) ==
    createExpenseFailing(memberIds, caller, body, 0)

-----------------------------------------------------------------------------
(*                            Balance calculator                           *)
(* memberIds is the sequence of the trip's member ids in the order the     *)
(* store returns them; a balance map is a function on those ids.  The      *)
(* calculator works on dollar amounts (mills here) and rounds to cents at  *)
(* the end.                                                                *)

\* Math.round(x * 100) / 100 on a signed amount: mills -> cents, half up
RoundBalance(mills) == (mills + 5) \div 10

RECURSIVE SplitDebit(_, _)
\* the sum of the shares split to user u, in cents
SplitDebit(splits, u) ==
    IF splits = <<>> THEN 0
    ELSE (IF Head(splits).userId = u THEN Head(splits).share ELSE 0)
         + SplitDebit(Tail(splits), u)

RECURSIVE ExpenseEffect(_, _)
\* "payer gets credited, splits get debited", for member u, in cents
ExpenseEffect(exps, u) ==
    IF exps = <<>> THEN 0
    ELSE (IF Head(exps).paidById = u THEN Head(exps).amount ELSE 0)
         - SplitDebit(Head(exps).splits, u)
         + ExpenseEffect(Tail(exps), u)

RECURSIVE PaymentEffect(_, _)
\* "Only confirmed payments count toward balances", for member u, in cents
PaymentEffect(pays, u) ==
    IF pays = <<>> THEN 0
    ELSE LET p == Head(pays)
         IN (IF p.exists /\ p.status = "confirmed"
             THEN (IF p.fromUserId = u THEN p.amount ELSE 0)
                  - (IF p.toUserId = u THEN p.amount ELSE 0)
             ELSE 0)
            + PaymentEffect(Tail(pays), u)

\* balances only exist for members: a payer or split user who is not a
\* member is skipped (balances[id] !== undefined)
calculateBalancesWithPayments(memberIds, exps, pays) ==
    [u \in Range(memberIds) |->
        RoundBalance(fromCents(ExpenseEffect(exps, u) + PaymentEffect(pays, u)))]

RECURSIVE SumBalances(_, _)
SumBalances(bal, ids) ==
    IF ids = <<>> THEN 0 ELSE bal[Head(ids)] + SumBalances(bal, Tail(ids))

-----------------------------------------------------------------------------
(*              Settlement planner (inline in getTripBalances)             *)
(* Amounts are cents.  balance < -0.01 is cents < -1, balance > 0.01 is    *)
(* cents > 1, amount > 0.01 is cents > 1, amount < 0.01 is cents < 1.      *)

RECURSIVE Debtors(_, _)
Debtors(bal, ids) ==
    IF ids = <<>> THEN <<>>
    ELSE (IF bal[Head(ids)] < -1
          THEN <<[odlUserId |-> Head(ids), amount |-> Abs(bal[Head(ids)])]>>
          ELSE <<>>) \o Debtors(bal, Tail(ids))

RECURSIVE Creditors(_, _)
Creditors(bal, ids) ==
    IF ids = <<>> THEN <<>>
    ELSE (IF ~(bal[Head(ids)] < -1) /\ bal[Head(ids)] > 1
          THEN <<[odlUserId |-> Head(ids), amount |-> bal[Head(ids)]]>>
          ELSE <<>>) \o Creditors(bal, Tail(ids))

RECURSIVE InsertByAmountDesc(_, _)
InsertByAmountDesc(sorted, x) ==
    IF sorted = <<>> THEN <<x>>
    ELSE IF Head(sorted).amount >= x.amount
         THEN <<Head(sorted)>> \o InsertByAmountDesc(Tail(sorted), x)
         ELSE <<x>> \o sorted

RECURSIVE SortByAmountDesc(_)
\* list.sort((a, b) => b.amount - a.amount), stable
SortByAmountDesc(list) ==
    IF list = <<>> THEN <<>>
    ELSE InsertByAmountDesc(SortByAmountDesc(SubSeq(list, 1, Len(list) - 1)),
                            list[Len(list)])

RECURSIVE MutGreedyInChunks(_, _, _, _, _)
MutGreedyInChunks(debtors, creditors, i, j, settlements) ==
    \* pays at most two cents per transfer
    IF ~(i <= Len(debtors) /\ j <= Len(creditors)) THEN settlements
    ELSE LET amount == Min(2, Min(debtors[i].amount, creditors[j].amount))
             out == IF amount > 1
                    THEN Append(settlements,
                                [from   |-> debtors[i].odlUserId,
                                 to     |-> creditors[j].odlUserId,
                                 amount |-> amount])
                    ELSE settlements
             d2 == [debtors EXCEPT ![i].amount = @ - amount]
             c2 == [creditors EXCEPT ![j].amount = @ - amount]
         IN MutGreedyInChunks(d2, c2,
                   IF d2[i].amount < 1 THEN i + 1 ELSE i,
                   IF c2[j].amount < 1 THEN j + 1 ELSE j,
                   out)

RECURSIVE Greedy(_, _, _, _, _)
\* while (i < debtors.length && j < creditors.length) { ... }
Greedy(debtors, creditors, i, j, settlements) ==
    IF ~(i <= Len(debtors) /\ j <= Len(creditors)) THEN settlements
    ELSE LET amount == Min(debtors[i].amount, creditors[j].amount)
             out == IF amount > 1
                    THEN Append(settlements,
                                [from   |-> debtors[i].odlUserId,
                                 to     |-> creditors[j].odlUserId,
                                 amount |-> amount])
                    ELSE settlements
             d2 == [debtors EXCEPT ![i].amount = @ - amount]
             c2 == [creditors EXCEPT ![j].amount = @ - amount]
         IN Greedy(d2, c2,
                   IF d2[i].amount < 1 THEN i + 1 ELSE i,
                   IF c2[j].amount < 1 THEN j + 1 ELSE j,
                   out)

\* the settlements of getTripBalances for a balance map
Settlements(bal, memberIds) ==
    Greedy(SortByAmountDesc(Debtors(bal, memberIds)),
           SortByAmountDesc(Creditors(bal, memberIds)), 1, 1, <<>>)

RECURSIVE ApplyTransfers(_, _)
\* the balances after each transfer is recorded as a confirmed payment:
\* balance[from] += amount, balance[to] -= amount
ApplyTransfers(bal, transfers) ==
    IF transfers = <<>> THEN bal
    ELSE LET t == Head(transfers)
         IN ApplyTransfers([bal EXCEPT ![t.from] = @ + t.amount,
                                       ![t.to]   = @ - t.amount],
                           Tail(transfers))

-----------------------------------------------------------------------------
(*                              Trip membership                            *)
(* createTrip makes the creator the owner; acceptInvite adds members.  No  *)
(* handler deletes a TripMember row.  The ledger specifications start from *)
(* a trip of alice (owner), bob and carol; dave is a user outside it.      *)

InitMembers == <<[userId |-> "alice", role |-> "owner"],
                 [userId |-> "bob",   role |-> "member"],
                 [userId |-> "carol", role |-> "member"]>>
TripUsers == {InitMembers[i].userId : i \in 1..Len(InitMembers)}

\* A TripInvite row: [inviterId, inviteeId, status].  bob and carol joined
\* by accepting alice's invites.
InitTripInvites == <<[inviterId |-> "alice", inviteeId |-> "bob",   status |-> "accepted"],
                     [inviterId |-> "alice", inviteeId |-> "carol", status |-> "accepted"]>>

\* the invite and friend tables where a specification does not exercise them
InitSocial ==
    /\ tripInvites = InitTripInvites
    /\ friends = {}
    /\ friendInvites = <<>>

MemberIdSeq(ms) == [i \in 1..Len(ms) |-> ms[i].userId]
MemberIds(ms) == {ms[i].userId : i \in 1..Len(ms)}

\* the balances of the trip as getTrip / getTripBalances compute them
Balances == calculateBalancesWithPayments(MemberIdSeq(members), expenses, payments)

-----------------------------------------------------------------------------
(*                          Payment state machine                          *)
(* A Payment row: [exists, fromUserId, toUserId, amount (cents), status,   *)
(* declineNote]; a deleted row is DeletedPayment.  Response kinds:         *)
(*   "ok" 200, "not_found" 404, "forbidden" 403, "already" 400 (Payment    *)
(*   already <status>), "not_pending" 400 (Can only delete pending         *)
(*   payments), "failed" 400 (the catch block), "invalid" 400.             *)

MaxPayments == 1    \* Payment rows created per behaviour
MaxReqs == 2        \* requests in flight at the same time

NoNote == "null"
DeletedPayment == [exists |-> FALSE]
IdleReq == [pc |-> "idle"]
NoCall == [done |-> TRUE]
NoFeed == [expenses |-> <<>>, payments |-> <<>>, caller |-> "", out |-> <<>>,
           done |-> FALSE]

NoToken == ""
NoClient == [authToken |-> NoToken,
             store |-> [token |-> NoToken, authToken |-> NoToken, user |-> NoToken],
             user |-> NoToken, session |-> "fresh", header |-> NoToken, calls |-> 0]
NoRead == [op |-> "none", userId |-> "", status |-> 0, body |-> [none |-> TRUE]]
NoTrips == [rows |-> <<>>, req |-> [op |-> "none"], status |-> 0]

NoResp == "none"

\* the parts of the program a specification does not exercise stay idle
InitSide ==
    /\ trips = NoTrips
    /\ receipt = NoCall
    /\ itemCall = NoCall
    /\ readResp = NoRead
    /\ chooseCall = NoCall
    /\ client = NoClient

\* the ledger, the social tables and the function calls at rest
InitCore ==
    /\ feed = NoFeed
    /\ members = InitMembers
    /\ InitSocial
    /\ expenses = <<>>
    /\ payments = <<>>
    /\ reqs = [r \in 1..MaxReqs |-> IdleReq]
    /\ lastResp = NoResp
    /\ expReq = NoCall
    /\ allocCall = NoCall
    /\ planCall = NoCall

\* amounts a client may send, in mills: 12.00 and 0.004
PaymentAmounts == {12000, 4}
\* the reason a declining receiver gives
DeclineNotes == {"wrong amount"}
\* who asks to record a payment, and to whom ("ghost" is no user): the
\* accepted pairs are bob -> alice and bob -> carol
PaymentCallers == {"bob", "dave"}
PaymentReceivers == {"alice", "bob", "carol", "dave", "ghost"}

\* the Payment.amount column is DECIMAL(10,2): the store rounds to cents
StoreDecimal2(mills) == RoundDiv(mills, 10)

\* createPayment: the response kind for a caller, a receiver id and an amount
createPaymentGuards(ms, caller, toUserId, amount) ==
    IF ~(amount > 0) THEN "invalid"
    ELSE IF caller \notin MemberIds(ms) THEN "forbidden"
    ELSE IF toUserId \notin Users THEN "not_found"
    ELSE IF toUserId = caller THEN "invalid"
    ELSE IF toUserId \notin MemberIds(ms) THEN "invalid"
    ELSE "ok"

\* createPayment.  Its reads are of the User and TripMember tables, which
\* no handler of the ledger writes, so the handler is one step.
CreatePayment(caller, toUserId, amount) ==
    LET verdict == createPaymentGuards(members, caller, toUserId, amount)
    IN /\ Len(payments) < MaxPayments
       /\ payments' = IF verdict = "ok"
                      THEN Append(payments,
                                  [exists      |-> TRUE,
                                   fromUserId  |-> caller,
                                   toUserId    |-> toUserId,
                                   amount      |-> StoreDecimal2(amount),
                                   status      |-> "pending",
                                   declineNote |-> NoNote])
                      ELSE payments
       /\ lastResp' = verdict
       /\ UNCHANGED <<members, expenses, reqs, fnVars, socialVars>>

\* prisma.payment.findUnique({ where: { id } }): the row, or null
FindPayment(pid) ==
    IF pid \in 1..Len(payments) /\ payments[pid].exists
    THEN payments[pid] ELSE DeletedPayment

MutReceiverGuardsAnyCaller(row, caller) ==
    \* the "Only the receiver can ..." check is missing
    IF ~row.exists THEN "not_found"
    ELSE IF row.status # "pending" THEN "already"
    ELSE "proceed"

\* confirmPayment / declinePayment between the read and the update:
\* "proceed" or the response kind of the early return
receiverGuards(row, caller) ==
    IF ~row.exists THEN "not_found"
    ELSE IF row.toUserId # caller THEN "forbidden"
    ELSE IF row.status # "pending" THEN "already"
    ELSE "proceed"

MutDeleteGuardsNoStatus(row, caller) ==
    \* the "Can only delete pending payments" check is missing
    IF ~row.exists THEN "not_found"
    ELSE IF row.fromUserId # caller THEN "forbidden"
    ELSE "proceed"

\* deletePayment between the read and the delete
deleteGuards(row, caller) ==
    IF ~row.exists THEN "not_found"
    ELSE IF row.fromUserId # caller THEN "forbidden"
    ELSE IF row.status # "pending" THEN "not_pending"
    ELSE "proceed"

\* the first await of a handler: findUnique, then the checks on the row
\* read.  An early return answers at once; otherwise the request goes on
\* to its write.
ReadStep(r, op, caller, pid, note, verdict) ==
    /\ reqs[r].pc = "idle"
    /\ IF verdict = "proceed"
       THEN /\ reqs' = [reqs EXCEPT ![r] =
                         [pc |-> "write", op |-> op, caller |-> caller,
                          pid |-> pid, note |-> note]]
            /\ lastResp' = lastResp
       ELSE /\ reqs' = reqs
            /\ lastResp' = verdict
    /\ UNCHANGED <<members, expenses, payments, fnVars, socialVars>>

ConfirmRead(r, caller, pid) ==
    ReadStep(r, "confirm", caller, pid, NoNote, receiverGuards(FindPayment(pid), caller))

DeclineRead(r, caller, pid, note) ==
    ReadStep(r, "decline", caller, pid, note, receiverGuards(FindPayment(pid), caller))

DeleteRead(r, caller, pid) ==
    ReadStep(r, "delete", caller, pid, NoNote, deleteGuards(FindPayment(pid), caller))

\* the second await: prisma.payment.update / delete where { id }.  The
\* statement names the row by id only; it throws when the row is gone, and
\* the catch block answers 400.
WriteStep(r, op, newRow) ==
    /\ reqs[r].pc = "write"
    /\ reqs[r].op = op
    /\ reqs' = [reqs EXCEPT ![r] = IdleReq]
    /\ IF FindPayment(reqs[r].pid).exists
       THEN /\ payments' = [payments EXCEPT ![reqs[r].pid] = newRow]
            /\ lastResp' = "ok"
       ELSE /\ payments' = payments
            /\ lastResp' = "failed"
    /\ UNCHANGED <<members, expenses, fnVars, socialVars>>

\* prisma.payment.update({ where: { id }, data: { status: "confirmed" } })
confirmUpdate(row) == [row EXCEPT !.status = "confirmed"]

\* prisma.payment.update({ where: { id },
\*                         data: { status: "declined", declineNote } })
declineUpdate(row, note) == [row EXCEPT !.status = "declined", !.declineNote = note]

ConfirmWrite(r) ==
    WriteStep(r, "confirm", confirmUpdate(FindPayment(reqs[r].pid)))

DeclineWrite(r) ==
    WriteStep(r, "decline", declineUpdate(FindPayment(reqs[r].pid), reqs[r].note))

DeleteWrite(r) ==
    WriteStep(r, "delete", DeletedPayment)

PaymentIds == 1..MaxPayments

NextPay ==
    \/ \E c \in PaymentCallers, t \in PaymentReceivers, a \in PaymentAmounts :
          CreatePayment(c, t, a)
    \/ \E r \in 1..MaxReqs, c \in TripUsers, pid \in PaymentIds : ConfirmRead(r, c, pid)
    \/ \E r \in 1..MaxReqs, c \in TripUsers, pid \in PaymentIds, n \in DeclineNotes :
          DeclineRead(r, c, pid, n)
    \/ \E r \in 1..MaxReqs, c \in TripUsers, pid \in PaymentIds : DeleteRead(r, c, pid)
    \/ \E r \in 1..MaxReqs : ConfirmWrite(r)
    \/ \E r \in 1..MaxReqs : DeclineWrite(r)
    \/ \E r \in 1..MaxReqs : DeleteWrite(r)

\* scenario 1 of the specification: a 36.00 dinner paid by alice, split
\* three ways
DinnerBody ==
    [kind |-> "items", tax |-> 0, tip |-> [type |-> "percent", value |-> 20],
     items |-> <<[price |-> 30000, assignedUserIds |-> <<"alice", "bob", "carol">>]>>]

InitPay ==
    /\ members = InitMembers
    /\ expenses = <<createExpense(TripUsers, "alice", DinnerBody).row>>
    /\ payments = <<>>
    /\ reqs = [r \in 1..MaxReqs |-> IdleReq]
    /\ lastResp = NoResp
    /\ expReq = NoCall
    /\ allocCall = NoCall
    /\ planCall = NoCall
    /\ feed = NoFeed
    /\ InitSide
    /\ InitSocial

SpecPay == InitPay /\ [][NextPay]_vars

-----------------------------------------------------------------------------
(*                  Properties of the payment state machine                *)

Terminal == {"confirmed", "declined"}

\* request r does its write in this step
Writes(r) == reqs[r].pc = "write" /\ reqs'[r].pc = "idle"
\* request r passes its checks in this step and goes on to its write
Admitted(r) == reqs[r].pc = "idle" /\ reqs'[r].pc = "write"

\* C1: when a confirm and a decline of the receiver race on a pending
\* payment, exactly one commits: the one whose write comes second finds the
\* other's status, answers with the "already ..." conflict and leaves the
\* row as the winner wrote it.
C1_LoserGetsConflict ==
    [][\A r \in 1..MaxReqs :
          (/\ Writes(r)
           /\ reqs[r].op \in {"confirm", "decline"}
           /\ FindPayment(reqs[r].pid).exists
           /\ FindPayment(reqs[r].pid).status \in Terminal)
          => (lastResp' = "already" /\ payments' = payments)]_vars

\* C6: a payment that has reached confirmed or declined is never removed.
C6_TerminalNeverRemoved ==
    [][\A pid \in 1..Len(payments) :
          (payments[pid].exists /\ payments[pid].status \in Terminal)
          => payments'[pid].exists]_vars

\* C5: once a payment is confirmed or declined, every request that arrives
\* later (whose read finds the terminal status), whoever the caller, is
\* answered with a rejection, is not admitted to its write, and leaves the
\* rows unchanged.
C5_TerminalAbsorbing ==
    [][/\ \A pid \in 1..Len(payments), c \in Users :
             (payments[pid].exists /\ payments[pid].status \in Terminal)
             => /\ receiverGuards(FindPayment(pid), c) \in {"forbidden", "already"}
                /\ deleteGuards(FindPayment(pid), c) \in {"forbidden", "not_pending"}
       /\ \A r \in 1..MaxReqs :
             Admitted(r) => /\ FindPayment(reqs'[r].pid).exists
                            /\ FindPayment(reqs'[r].pid).status = "pending"
       /\ (reqs' = reqs) =>
             \A pid \in 1..Len(payments) : payments'[pid] = payments[pid]]_vars

\* the sender's delete was refused because the receiver had declined
C5_Witness ==
    /\ lastResp = "not_pending"
    /\ \E pid \in 1..Len(payments) :
          payments[pid].exists /\ payments[pid].status = "declined"
    /\ \A r \in 1..MaxReqs : reqs[r].pc = "idle"

\* C7: only confirmed payments affect balances: createPayment and the
\* writes of declinePayment and deletePayment leave every balance unchanged;
\* the write of confirmPayment on a pending payment of amount x adds x to
\* the sender's balance, takes x from the receiver's and changes no other.
C7_OnlyConfirmMovesBalances ==
    [][/\ Len(payments') > Len(payments) => Balances' = Balances
       /\ \A r \in 1..MaxReqs :
             Writes(r) =>
                LET row == FindPayment(reqs[r].pid)
                IN /\ reqs[r].op \in {"decline", "delete"} => Balances' = Balances
                   /\ (reqs[r].op = "confirm" /\ row.exists /\ row.status = "pending")
                      => Balances' = [Balances EXCEPT ![row.fromUserId] = @ + row.amount,
                                                      ![row.toUserId]   = @ - row.amount]]_vars

C17_CreatedPaymentWellFormed ==
    [][Len(payments') > Len(payments) =>
          LET row == payments'[Len(payments')]
          IN /\ row.exists
             /\ row.status = "pending"
             /\ row.fromUserId # row.toUserId
             /\ row.amount > 0
             /\ row.fromUserId \in MemberIds(members)
             /\ row.toUserId \in MemberIds(members)]_vars

-----------------------------------------------------------------------------
(*                       The trip ledger: expenses                         *)

MaxExpenses == 1    \* Expense rows created per behaviour of the ledger

\* createExpense as a step of the ledger.  Its reads are of TripMember,
\* which no ledger handler writes; the itemized writes are one transaction
\* and the simple-split write is one nested create.
CreateExpense(caller, body) ==
    LET res == createExpense(MemberIds(members), caller, body)
    IN /\ Len(expenses) < MaxExpenses
       /\ expenses' = IF res.row # NoRow THEN Append(expenses, res.row) ELSE expenses
       /\ lastResp' = IF res.status = 200 THEN "ok"
                      ELSE IF res.status = 403 THEN "forbidden" ELSE "invalid"
       /\ UNCHANGED <<members, payments, reqs, fnVars, socialVars>>

Split(u, mills) == [userId |-> u, share |-> mills]
Item(mills, ids) == [price |-> mills, assignedUserIds |-> ids]
NoTip == [type |-> "none", value |-> 0]
SimpleBody(amount, splits) == [kind |-> "splits", amount |-> amount, splits |-> splits]
ItemsBody(items, tax, tip) == [kind |-> "items", tax |-> tax, tip |-> tip, items |-> items]

\* the requests of the ledger specification, amounts in mills
LedgerBodies ==
    { SimpleBody(20, <<Split("bob", 10), Split("carol", 10)>>),
      SimpleBody(1000, <<Split("alice", 500), Split("bob", 500)>>),
      SimpleBody(1000, <<Split("alice", 500), Split("bob", 510)>>),
      SimpleBody(1000, <<Split("bob", 500), Split("dave", 500)>>),
      SimpleBody(10, <<Split("alice", 5), Split("bob", 5)>>),
      SimpleBody(1000, <<Split("alice", 500), Split("bob", 600)>>),
      ItemsBody(<<Item(10000, <<"alice", "bob", "carol">>)>>, 50, NoTip),
      DinnerBody }

LedgerPayers == {"alice", "carol", "dave"}

Init ==
    /\ members = InitMembers
    /\ expenses = <<>>
    /\ payments = <<>>
    /\ reqs = [r \in 1..MaxReqs |-> IdleReq]
    /\ lastResp = NoResp
    /\ expReq = NoCall
    /\ allocCall = NoCall
    /\ planCall = NoCall
    /\ feed = NoFeed
    /\ InitSide
    /\ InitSocial

Next ==
    \/ \E c \in LedgerPayers, b \in LedgerBodies : CreateExpense(c, b)
    \/ NextPay

Spec == Init /\ [][Next]_vars

\* C2: in every state of the trip the balances of the members sum to zero.
C2_BalancesSumToZero ==
    SumBalances(Balances, MemberIdSeq(members)) = 0

\* C4: applying the planner's transfers as confirmed payments leaves every
\* member's balance within one cent of zero.
C4_PlannerClearsBalances ==
    LET ids == MemberIdSeq(members)
        after == ApplyTransfers(Balances, Settlements(Balances, ids))
    IN \A u \in Range(ids) : Abs(after[u]) <= 1

-----------------------------------------------------------------------------
(*        Specification of createExpense as a function of its request      *)

MaxSplits == 2      \* entries of a simple request's splits array
MaxItems  == 2      \* items of an itemized request
MaxFailAt == 3      \* the store fails at statement 1..MaxFailAt, or not at all (0)

SplitAmounts == {10, 1000, 1005}            \* mills
SplitShares  == {5, 500, 505, 510}          \* mills
SplitUsers   == {"alice", "bob", "dave"}
ItemPrices   == {1000, 3335}                \* mills
ItemTaxes    == {0, 105}                    \* mills
ItemTips     == {NoTip, [type |-> "percent", value |-> 18], [type |-> "amount", value |-> 101]}
ItemAssignees == {<<"alice">>, <<"alice", "bob", "carol">>, <<"bob", "dave">>}

SimpleBodies ==
    UNION {{SimpleBody(a, [i \in 1..k |-> Split(us[i], sh[i])]) :
               a \in SplitAmounts, us \in [1..k -> SplitUsers], sh \in [1..k -> SplitShares]} :
           k \in 1..MaxSplits}

ItemsBodies ==
    UNION {{ItemsBody([i \in 1..k |-> Item(pr[i], as[i])], tax, tip) :
               pr \in [1..k -> ItemPrices], as \in [1..k -> ItemAssignees],
               tax \in ItemTaxes, tip \in ItemTips} :
           k \in 1..MaxItems}

\* six items of half a cent, two for each member
HalfCentItemsBody ==
    ItemsBody(<<Item(5, <<"alice">>), Item(5, <<"alice">>), Item(5, <<"bob">>),
                Item(5, <<"bob">>), Item(5, <<"carol">>), Item(5, <<"carol">>)>>, 0, NoTip)

\* bodies that the schema rejects: no items, an item without assignees, an
\* item with a price of zero
MalformedBodies ==
    { ItemsBody(<<>>, 0, NoTip),
      ItemsBody(<<Item(1000, <<>>)>>, 0, NoTip),
      ItemsBody(<<Item(1000, <<"alice">>), Item(0, <<"bob">>)>>, 0, NoTip) }

ScenarioBodies == {DinnerBody, HalfCentItemsBody} \cup MalformedBodies

ExpenseCallers == {"alice", "dave"}

InitExpense ==
    /\ expReq \in {[caller |-> c, body |-> b, failAt |-> f,
                       done |-> FALSE, status |-> 0, row |-> NoRow] :
                      c \in ExpenseCallers,
                      b \in SimpleBodies \cup ItemsBodies \cup ScenarioBodies,
                      f \in 0..MaxFailAt}
    /\ members = InitMembers
    /\ expenses = <<>>
    /\ payments = <<>>
    /\ reqs = [r \in 1..MaxReqs |-> IdleReq]
    /\ lastResp = NoResp
    /\ allocCall = NoCall
    /\ planCall = NoCall
    /\ feed = NoFeed
    /\ InitSide
    /\ InitSocial

\* the request is served: the response and the persisted expense
ServeExpense ==
    /\ ~expReq.done
    /\ LET res == createExpenseFailing(MemberIds(members), expReq.caller, expReq.body,
                                        expReq.failAt)
       IN /\ expReq' = [expReq EXCEPT !.done = TRUE, !.status = res.status, !.row = res.row]
          /\ expenses' = IF res.row # NoRow THEN Append(expenses, res.row) ELSE expenses
    /\ UNCHANGED <<members, payments, reqs, lastResp, allocCall, planCall, feed, socialVars, sideVars>>

NextExpense == ServeExpense

SpecExpense == InitExpense /\ [][NextExpense]_vars

RECURSIVE SumStoredShares(_)
SumStoredShares(splits) ==
    IF splits = <<>> THEN 0 ELSE Head(splits).share + SumStoredShares(Tail(splits))

\* C3: for every expense that is persisted, by either payload shape, the
\* stored splits sum to the stored total.
C3_SplitsSumToTotal ==
    \A i \in 1..Len(expenses) :
        SumStoredShares(expenses[i].splits) = expenses[i].total

\* C12: for every persisted expense the payer and every user with an
\* ExpenseSplit row of it are members of the trip.
C12_ExpenseUsersAreMembers ==
    \A i \in 1..Len(expenses) :
        /\ expenses[i].paidById \in MemberIds(members)
        /\ \A k \in 1..Len(expenses[i].splits) :
              expenses[i].splits[k].userId \in MemberIds(members)

RECURSIVE SumStoredPrices(_)
SumStoredPrices(items) ==
    IF items = <<>> THEN 0 ELSE Head(items).price + SumStoredPrices(Tail(items))

\* C13: for every persisted itemized expense the stored total is the stored
\* subtotal + tax + tip and the stored subtotal is the sum of the stored
\* item prices, to the cent.
C13_ItemizedTotals ==
    \A i \in 1..Len(expenses) :
        expenses[i].items # <<>> =>
            /\ expenses[i].total = expenses[i].subtotal + expenses[i].tax + expenses[i].tip
            /\ expenses[i].subtotal = SumStoredPrices(expenses[i].items)

\* C14: every persisted ExpenseSplit share is >= 0.
C14_SharesNonNegative ==
    \A i \in 1..Len(expenses) :
        \A k \in 1..Len(expenses[i].splits) : expenses[i].splits[k].share >= 0

\* the users named by the assignees of the items of a request
AssignedUsers(items) == UNION {Range(items[k].assignedUserIds) : k \in 1..Len(items)}

\* the row has every child row that the request asks for
CompleteFor(row, body) ==
    IF body.kind = "splits"
    THEN /\ row.items = <<>>
         /\ Len(row.splits) = Len(body.splits)
         /\ \A k \in 1..Len(body.splits) : row.splits[k].userId = body.splits[k].userId
    ELSE /\ Len(row.items) = Len(body.items)
         /\ \A k \in 1..Len(body.items) :
               row.items[k].assignees = Range(body.items[k].assignedUserIds)
         /\ {row.splits[k].userId : k \in 1..Len(row.splits)} = AssignedUsers(body.items)

\* C19: createExpense is all-or-nothing: a request answered 200 has
\* persisted the expense with all of its item, assignment and split rows;
\* a rejected request, or one whose write fails part-way, has persisted
\* nothing.
C19_AllOrNothing ==
    expReq.done =>
        IF expReq.status = 200
        THEN expenses = <<expReq.row>> /\ CompleteFor(expReq.row, expReq.body)
        ELSE expenses = <<>> /\ expReq.row = NoRow

\* a simple-split request of a member whose shares add up but name one user
\* twice: the second ExpenseSplit insert fails after the Expense and the
\* first split were written, and nothing is stored
C19_Witness ==
    /\ expReq.done
    /\ expReq.status = 400
    /\ expReq.failAt = 0
    /\ expReq.caller \in MemberIds(members)
    /\ expReq.body.kind = "splits"
    /\ Abs(SumShares(expReq.body.splits) - expReq.body.amount) <= 10
    /\ ~DistinctUsers(expReq.body.splits)
    /\ expenses = <<>>

-----------------------------------------------------------------------------
(*                         Trip invites: addMember,                        *)
(*                       acceptInvite and declineInvite                    *)
(* Response kinds: "ok" 200, "not_found" 404, "forbidden" 403, "conflict"  *)
(* 409, "already" 400 (Invite already responded to), "failed" 400 (the     *)
(* catch block).                                                           *)

\* tripInvite.findUnique({ where: { tripId_inviteeId } }) finds a row
HasInviteFor(invs, userId) == \E k \in 1..Len(invs) : invs[k].inviteeId = userId

\* addMember up to the create: "proceed" or the response of the early return
addMemberGuards(ms, invs, username) ==
    IF username \notin Users THEN "not_found"
    ELSE IF username \in MemberIds(ms) THEN "conflict"
    ELSE IF HasInviteFor(invs, username) THEN "conflict"
    ELSE "proceed"

\* addMember: the three reads.  The rows they look for are only ever
\* inserted, and a TripMember row of the invitee needs a TripInvite row
\* first, so reading them in one step loses no interleaving.
AddMemberRead(r, caller, username) ==
    LET verdict == addMemberGuards(members, tripInvites, username)
    IN /\ reqs[r].pc = "idle"
       /\ IF verdict = "proceed"
          THEN /\ reqs' = [reqs EXCEPT ![r] =
                            [pc |-> "write", op |-> "addMember", caller |-> caller,
                             inviteeId |-> username]]
               /\ lastResp' = lastResp
          ELSE /\ reqs' = reqs
               /\ lastResp' = verdict
       /\ UNCHANGED <<members, expenses, payments, tripInvites, friends, friendInvites, fnVars>>

\* prisma.tripInvite.create: the unique index (tripId, inviteeId) rejects a
\* second row, and the catch block answers 409
AddMemberWrite(r) ==
    /\ reqs[r].pc = "write"
    /\ reqs[r].op = "addMember"
    /\ reqs' = [reqs EXCEPT ![r] = IdleReq]
    /\ IF HasInviteFor(tripInvites, reqs[r].inviteeId)
       THEN /\ tripInvites' = tripInvites
            /\ lastResp' = "conflict"
       ELSE /\ tripInvites' = Append(tripInvites,
                                     [inviterId |-> reqs[r].caller,
                                      inviteeId |-> reqs[r].inviteeId,
                                      status    |-> "pending"])
            /\ lastResp' = "ok"
    /\ UNCHANGED <<members, expenses, payments, friends, friendInvites, fnVars>>

NoInvite == [exists |-> FALSE]

\* prisma.tripInvite.findUnique({ where: { id } }): the row, or null
FindInvite(invs, id) ==
    IF id \in 1..Len(invs)
    THEN [exists |-> TRUE, inviteeId |-> invs[id].inviteeId, status |-> invs[id].status]
    ELSE NoInvite

\* acceptInvite / declineInvite between the read and the write
inviteGuards(row, caller) ==
    IF ~row.exists THEN "not_found"
    ELSE IF row.inviteeId # caller THEN "forbidden"
    ELSE IF row.status # "pending" THEN "already"
    ELSE "proceed"

InviteRead(r, op, caller, id) ==
    LET verdict == inviteGuards(FindInvite(tripInvites, id), caller)
    IN /\ reqs[r].pc = "idle"
       /\ IF verdict = "proceed"
          THEN /\ reqs' = [reqs EXCEPT ![r] =
                            [pc |-> "write", op |-> op, caller |-> caller, id |-> id]]
               /\ lastResp' = lastResp
          ELSE /\ reqs' = reqs
               /\ lastResp' = verdict
       /\ UNCHANGED <<members, expenses, payments, tripInvites, friends, friendInvites, fnVars>>

AcceptInviteRead(r, caller, id) == InviteRead(r, "acceptInvite", caller, id)
DeclineInviteRead(r, caller, id) == InviteRead(r, "declineInvite", caller, id)

\* prisma.$transaction([tripInvite.update, tripMember.create]): the update
\* names the row by id only; the create fails on the unique index
\* (tripId, userId) when the caller is a member already, and then the
\* whole transaction is rolled back.
AcceptInviteWrite(r) ==
    /\ reqs[r].pc = "write"
    /\ reqs[r].op = "acceptInvite"
    /\ reqs' = [reqs EXCEPT ![r] = IdleReq]
    /\ IF reqs[r].caller \in MemberIds(members)
       THEN /\ UNCHANGED <<tripInvites, members>>
            /\ lastResp' = "failed"
       ELSE /\ tripInvites' = [tripInvites EXCEPT ![reqs[r].id].status = "accepted"]
            /\ members' = Append(members, [userId |-> reqs[r].caller, role |-> "member"])
            /\ lastResp' = "ok"
    /\ UNCHANGED <<expenses, payments, friends, friendInvites, fnVars>>

\* prisma.tripInvite.update({ where: { id }, data: { status: "declined" } })
DeclineInviteWrite(r) ==
    /\ reqs[r].pc = "write"
    /\ reqs[r].op = "declineInvite"
    /\ reqs' = [reqs EXCEPT ![r] = IdleReq]
    /\ tripInvites' = [tripInvites EXCEPT ![reqs[r].id].status = "declined"]
    /\ lastResp' = "ok"
    /\ UNCHANGED <<members, expenses, payments, friends, friendInvites, fnVars>>

\* who calls addMember (dave is not in the trip) and whom they name
\* ("ghost" is no user)
InviteCallers == {"alice", "dave"}
InviteUsernames == {"alice", "bob", "carol", "ghost"}
InviteResponders == {"bob", "carol"}
InviteIds == 1..Cardinality(InviteResponders)

\* a trip that alice has just created
InitInvite ==
    /\ members = <<[userId |-> "alice", role |-> "owner"]>>
    /\ tripInvites = <<>>
    /\ friends = {}
    /\ friendInvites = <<>>
    /\ expenses = <<>>
    /\ payments = <<>>
    /\ reqs = [r \in 1..MaxReqs |-> IdleReq]
    /\ lastResp = NoResp
    /\ expReq = NoCall
    /\ allocCall = NoCall
    /\ planCall = NoCall
    /\ feed = NoFeed
    /\ InitSide

NextInvite ==
    \/ \E r \in 1..MaxReqs, c \in InviteCallers, u \in InviteUsernames : AddMemberRead(r, c, u)
    \/ \E r \in 1..MaxReqs : AddMemberWrite(r)
    \/ \E r \in 1..MaxReqs, c \in InviteResponders, id \in InviteIds : AcceptInviteRead(r, c, id)
    \/ \E r \in 1..MaxReqs, c \in InviteResponders, id \in InviteIds : DeclineInviteRead(r, c, id)
    \/ \E r \in 1..MaxReqs : AcceptInviteWrite(r)
    \/ \E r \in 1..MaxReqs : DeclineInviteWrite(r)

SpecInvite == InitInvite /\ [][NextInvite]_vars

\* C9: in every state a user is a TripMember with role member exactly when
\* the TripInvite of that user for the trip has status accepted.
C9_MemberIffInviteAccepted ==
    \A u \in Users :
        (\E i \in 1..Len(members) : members[i].userId = u /\ members[i].role = "member")
        <=> (\E k \in 1..Len(tripInvites) :
                tripInvites[k].inviteeId = u /\ tripInvites[k].status = "accepted")

\* C18: every TripInvite row that addMember creates has an inviter who is
\* a member of the trip and an invitee who is not a member of it when the
\* row is created.
C18_InviteByMemberForNonMember ==
    [][Len(tripInvites') > Len(tripInvites) =>
          LET row == tripInvites'[Len(tripInvites')]
          IN /\ row.inviterId \in MemberIds(members)
             /\ row.inviteeId \notin MemberIds(members)]_vars

-----------------------------------------------------------------------------
(*        Friends: addFriend, acceptFriendInvite, declineFriendInvite,     *)
(*                              removeFriend                               *)
(* A Friend row is the pair (userId, friendId), unique as a pair (the key  *)
(* userId_friendId of addFriend's findUnique).  A FriendInvite row is      *)
(* [senderId, receiverId, status], unique on (senderId, receiverId).       *)

\* the two prisma.friend.create of the accepting transactions
befriend(fs, userId, friendId) == fs \cup {<<userId, friendId>>, <<friendId, userId>>}

\* either create violates the unique key of Friend
FriendKeyTaken(fs, userId, friendId) ==
    <<userId, friendId>> \in fs \/ <<friendId, userId>> \in fs

MutRemoveOneDirection(fs, userId, friendId) == fs \ {<<userId, friendId>>}

\* the two prisma.friend.deleteMany of removeFriend's transaction
unfriend(fs, userId, friendId) == fs \ {<<userId, friendId>>, <<friendId, userId>>}

\* addFriend, first reads: user.findUnique({ username }) and
\* friend.findUnique({ userId_friendId }).  The User table is never written.
addFriendGuards(fs, userId, username) ==
    IF username \notin Users THEN "not_found"
    ELSE IF username = userId THEN "invalid"
    ELSE IF <<userId, username>> \in fs THEN "conflict"
    ELSE "proceed"

AddFriendCheckFriend(r, userId, username) ==
    LET verdict == addFriendGuards(friends, userId, username)
    IN /\ reqs[r].pc = "idle"
       /\ IF verdict = "proceed"
          THEN /\ reqs' = [reqs EXCEPT ![r] =
                            [pc |-> "findInvite", op |-> "addFriend", caller |-> userId,
                             friendId |-> username]]
               /\ lastResp' = lastResp
          ELSE /\ reqs' = reqs
               /\ lastResp' = verdict
       /\ UNCHANGED <<members, expenses, payments, tripInvites, friends, friendInvites, fnVars>>

\* the pending invites between the two users, in either direction
PendingBetween(invs, a, b) ==
    {k \in 1..Len(invs) :
        /\ invs[k].status = "pending"
        /\ \/ (invs[k].senderId = a /\ invs[k].receiverId = b)
           \/ (invs[k].senderId = b /\ invs[k].receiverId = a)}

\* addFriend, friendInvite.findFirst without an order: any matching row.
\* An invite of the other user is auto-accepted next, an own invite is a
\* conflict, no invite leads to the create.
AddFriendFindInvite(r) ==
    /\ reqs[r].pc = "findInvite"
    /\ LET found == PendingBetween(friendInvites, reqs[r].caller, reqs[r].friendId)
       IN IF found = {}
          THEN /\ reqs' = [reqs EXCEPT ![r] =
                            [pc |-> "write", op |-> "createFriendInvite",
                             caller |-> reqs[r].caller, friendId |-> reqs[r].friendId]]
               /\ lastResp' = lastResp
          ELSE \E k \in found :
                  IF friendInvites[k].senderId = reqs[r].friendId
                  THEN /\ reqs' = [reqs EXCEPT ![r] =
                                    [pc |-> "write", op |-> "autoAccept",
                                     caller |-> reqs[r].caller, id |-> k]]
                       /\ lastResp' = lastResp
                  ELSE /\ reqs' = [reqs EXCEPT ![r] = IdleReq]
                       /\ lastResp' = "conflict"
    /\ UNCHANGED <<members, expenses, payments, tripInvites, friends, friendInvites, fnVars>>

\* prisma.friendInvite.create: the unique index (senderId, receiverId)
\* rejects a second row whatever its status; the catch block answers 409
CreateFriendInviteWrite(r) ==
    /\ reqs[r].pc = "write"
    /\ reqs[r].op = "createFriendInvite"
    /\ reqs' = [reqs EXCEPT ![r] = IdleReq]
    /\ IF \E k \in 1..Len(friendInvites) :
             /\ friendInvites[k].senderId = reqs[r].caller
             /\ friendInvites[k].receiverId = reqs[r].friendId
       THEN /\ friendInvites' = friendInvites
            /\ lastResp' = "conflict"
       ELSE /\ friendInvites' = Append(friendInvites,
                                       [senderId   |-> reqs[r].caller,
                                        receiverId |-> reqs[r].friendId,
                                        status     |-> "pending"])
            /\ lastResp' = "ok"
    /\ UNCHANGED <<members, expenses, payments, tripInvites, friends, fnVars>>

NoFriendInvite == [exists |-> FALSE]

\* prisma.friendInvite.findUnique({ where: { id } }): the row, or null
FindFriendInvite(invs, id) ==
    IF id \in 1..Len(invs)
    THEN [exists |-> TRUE, senderId |-> invs[id].senderId,
          receiverId |-> invs[id].receiverId, status |-> invs[id].status]
    ELSE NoFriendInvite

\* acceptFriendInvite / declineFriendInvite between the read and the write
friendInviteGuards(row, caller) ==
    IF ~row.exists THEN "not_found"
    ELSE IF row.receiverId # caller THEN "forbidden"
    ELSE IF row.status # "pending" THEN "already"
    ELSE "proceed"

FriendInviteRead(r, op, caller, id) ==
    LET verdict == friendInviteGuards(FindFriendInvite(friendInvites, id), caller)
    IN /\ reqs[r].pc = "idle"
       /\ IF verdict = "proceed"
          THEN /\ reqs' = [reqs EXCEPT ![r] =
                            [pc |-> "write", op |-> op, caller |-> caller, id |-> id]]
               /\ lastResp' = lastResp
          ELSE /\ reqs' = reqs
               /\ lastResp' = verdict
       /\ UNCHANGED <<members, expenses, payments, tripInvites, friends, friendInvites, fnVars>>

AcceptFriendInviteRead(r, caller, id) == FriendInviteRead(r, "acceptFriendInvite", caller, id)
DeclineFriendInviteRead(r, caller, id) == FriendInviteRead(r, "declineFriendInvite", caller, id)

\* prisma.$transaction([friendInvite.update, friend.create, friend.create])
\* of acceptFriendInvite and of addFriend's auto-accept: the update names
\* the invite by id only; a create that violates the unique key of Friend
\* rolls the whole transaction back; acceptFriendInvite then answers 400,
\* addFriend 409 (its catch block looks for "Unique constraint").
AcceptFriendInviteWrite(r) ==
    /\ reqs[r].pc = "write"
    /\ reqs[r].op \in {"acceptFriendInvite", "autoAccept"}
    /\ reqs' = [reqs EXCEPT ![r] = IdleReq]
    /\ LET them == friendInvites[reqs[r].id].senderId
       IN IF FriendKeyTaken(friends, reqs[r].caller, them)
          THEN /\ UNCHANGED <<friends, friendInvites>>
               /\ lastResp' = IF reqs[r].op = "autoAccept" THEN "conflict" ELSE "failed"
          ELSE /\ friendInvites' = [friendInvites EXCEPT ![reqs[r].id].status = "accepted"]
               /\ friends' = befriend(friends, reqs[r].caller, them)
               /\ lastResp' = "ok"
    /\ UNCHANGED <<members, expenses, payments, tripInvites, fnVars>>

\* prisma.friendInvite.update({ where: { id }, data: { status: "declined" } })
DeclineFriendInviteWrite(r) ==
    /\ reqs[r].pc = "write"
    /\ reqs[r].op = "declineFriendInvite"
    /\ reqs' = [reqs EXCEPT ![r] = IdleReq]
    /\ friendInvites' = [friendInvites EXCEPT ![reqs[r].id].status = "declined"]
    /\ lastResp' = "ok"
    /\ UNCHANGED <<members, expenses, payments, tripInvites, friends, fnVars>>

\* removeFriend: one transaction of two deleteMany, which never fail
RemoveFriend(userId, friendId) ==
    /\ friends' = unfriend(friends, userId, friendId)
    /\ lastResp' = "ok"
    /\ UNCHANGED <<members, expenses, payments, reqs, tripInvites, friendInvites, fnVars>>

FriendCallers == {"alice", "bob"}
FriendUsernames == {"alice", "bob", "ghost"}
FriendResponders == {"alice", "bob", "carol"}
FriendInviteIds == 1..Cardinality(FriendCallers)

InitFriend ==
    /\ members = InitMembers
    /\ InitSocial
    /\ expenses = <<>>
    /\ payments = <<>>
    /\ reqs = [r \in 1..MaxReqs |-> IdleReq]
    /\ lastResp = NoResp
    /\ expReq = NoCall
    /\ allocCall = NoCall
    /\ planCall = NoCall
    /\ feed = NoFeed
    /\ InitSide

NextFriend ==
    \/ \E r \in 1..MaxReqs, c \in FriendCallers, u \in FriendUsernames :
          AddFriendCheckFriend(r, c, u)
    \/ \E r \in 1..MaxReqs : AddFriendFindInvite(r)
    \/ \E r \in 1..MaxReqs : CreateFriendInviteWrite(r)
    \/ \E r \in 1..MaxReqs, c \in FriendResponders, id \in FriendInviteIds :
          AcceptFriendInviteRead(r, c, id)
    \/ \E r \in 1..MaxReqs, c \in FriendResponders, id \in FriendInviteIds :
          DeclineFriendInviteRead(r, c, id)
    \/ \E r \in 1..MaxReqs : AcceptFriendInviteWrite(r)
    \/ \E r \in 1..MaxReqs : DeclineFriendInviteWrite(r)
    \/ \E c \in FriendCallers, f \in FriendCallers : RemoveFriend(c, f)

SpecFriend == InitFriend /\ [][NextFriend]_vars

\* C10: in every state the Friend table is symmetric and irreflexive: the
\* row (a, b) exists exactly when the row (b, a) does, and no row has a = b.
C10_FriendsSymmetricIrreflexive ==
    \A p \in friends : <<p[2], p[1]>> \in friends /\ p[1] # p[2]

\* alice and bob are friends again after a removal: both of their crossing
\* invites have been accepted
C10_Witness ==
    /\ <<"alice", "bob">> \in friends
    /\ Len(friendInvites) = 2
    /\ \A k \in 1..Len(friendInvites) : friendInvites[k].status = "accepted"

\* C11: in every state no FriendInvite with status pending exists, in
\* either direction, between two users who have Friend rows.
C11_NoPendingInviteBetweenFriends ==
    \A k \in 1..Len(friendInvites) :
        friendInvites[k].status = "pending"
        => ~FriendKeyTaken(friends, friendInvites[k].senderId, friendInvites[k].receiverId)

-----------------------------------------------------------------------------
(*     Specification of the settlement planner as a function of a          *)
(*                              balance map                                *)

MaxBalance == 4     \* balances -MaxBalance..MaxBalance cents

\* the balance maps of a trip of four members, zero-sum or not
PlanInputs == [Users -> (0 - MaxBalance)..MaxBalance]

InitPlan ==
    /\ planCall \in {[bal |-> b, out |-> <<>>, done |-> FALSE] : b \in PlanInputs}
    /\ members = InitMembers
    /\ InitSocial
    /\ expenses = <<>>
    /\ payments = <<>>
    /\ reqs = [r \in 1..MaxReqs |-> IdleReq]
    /\ lastResp = NoResp
    /\ expReq = NoCall
    /\ allocCall = NoCall
    /\ feed = NoFeed
    /\ InitSide

\* getTripBalances computes the settlements of the balance map
Plan ==
    /\ ~planCall.done
    /\ planCall' = [planCall EXCEPT !.out = Settlements(planCall.bal, UserOrder),
                                    !.done = TRUE]
    /\ UNCHANGED <<ledgerVars, socialVars, expReq, allocCall, feed, sideVars>>

NextPlan == Plan

SpecPlan == InitPlan /\ [][NextPlan]_vars

\* the users whose absolute balance is at least one cent
Unsettled(bal) == {u \in DOMAIN bal : Abs(bal[u]) >= 1}

-----------------------------------------------------------------------------
(*         Specification of the allocator as a function of its inputs      *)

MaxShare == 4       \* per-user subtotals 0..MaxShare cents
MaxPool  == 5       \* pools 0..MaxPool cents
\* the per-user subtotals of the "penny distribution" scenario
ScenarioShares == {333, 334}
ShareValues == (0..MaxShare) \cup ScenarioShares

\* createExpense always passes a non-empty map (items and assignees are
\* non-empty), so the inputs are the non-empty maps.
AllocInputs ==
    UNION {{[n \in 1..Len(us) |-> <<us[n], sh[n]>>] :
               us \in InjSeqs(TripUsers, k), sh \in [1..k -> ShareValues]} :
           k \in 1..Cardinality(TripUsers)}

InitAlloc ==
    /\ allocCall \in {[in |-> e, pool |-> p, out |-> <<>>, done |-> FALSE] :
                         e \in AllocInputs, p \in 0..MaxPool}
    /\ members = InitMembers
    /\ expenses = <<>>
    /\ payments = <<>>
    /\ reqs = [r \in 1..MaxReqs |-> IdleReq]
    /\ lastResp = NoResp
    /\ expReq = NoCall
    /\ planCall = NoCall
    /\ feed = NoFeed
    /\ InitSide
    /\ InitSocial

Allocate ==
    /\ ~allocCall.done
    /\ allocCall' = [allocCall EXCEPT !.out = allocateProportionally(allocCall.in, allocCall.pool),
                                      !.done = TRUE]
    /\ UNCHANGED <<ledgerVars, expReq, planCall, feed, socialVars, sideVars>>

NextAlloc == Allocate

SpecAlloc == InitAlloc /\ [][NextAlloc]_vars


LargestRemainder(entries, pool, i) ==
    LET total == SumEntries(entries)
        fl(j) == (pool * entries[j][2]) \div total
        rm(j) == (pool * entries[j][2]) % total
        deficit == pool - SumSeq([j \in 1..Len(entries) |-> fl(j)])
        before == {j \in 1..Len(entries) :
                      rm(j) > rm(i) \/ (rm(j) = rm(i) /\ j < i)}
    IN  fl(i) + (IF Cardinality(before) < deficit THEN 1 ELSE 0)

PennyScenario == <<<<"alice", 334>>, <<"bob", 333>>, <<"carol", 333>>>>

\* for subtotals 334, 333, 333 and a pool of 5 cents the result is 2, 2, 1
PennyScenarioResult ==
    (allocCall.done /\ allocCall.in = PennyScenario /\ allocCall.pool = 5)
        => /\ MapGet(allocCall.out, "alice") = 2
           /\ MapGet(allocCall.out, "bob") = 2
           /\ MapGet(allocCall.out, "carol") = 1

\* C23: every user gets the floor of pool*share/sum(shares), and one extra
\* cent goes to exactly (pool - sum of floors) users, those with the largest
\* fractional remainders, ties broken by input order; 334, 333, 333 with a
\* pool of 5 gives 2, 2, 1
C23_LargestRemainderByInputOrder ==
    /\ PennyScenarioResult
    /\ (allocCall.done /\ allocCall.pool > 0 /\ SumEntries(allocCall.in) > 0)
          => \A i \in 1..Len(allocCall.in) :
                MapGet(allocCall.out, allocCall.in[i][1])
                  = LargestRemainder(allocCall.in, allocCall.pool, i)

\* every user gets the floor or the floor plus one cent, and a user with a
\* strictly larger remainder is served before a user with a smaller one
FloorPlusAtMostOne ==
    (allocCall.done /\ allocCall.pool > 0 /\ SumEntries(allocCall.in) > 0)
        => LET total == SumEntries(allocCall.in)
               fl(j) == (allocCall.pool * allocCall.in[j][2]) \div total
               rm(j) == (allocCall.pool * allocCall.in[j][2]) % total
               got(j) == MapGet(allocCall.out, allocCall.in[j][1])
           IN  \A i \in 1..Len(allocCall.in) :
                  /\ got(i) - fl(i) \in {0, 1}
                  /\ \A j \in 1..Len(allocCall.in) :
                        (rm(j) > rm(i) /\ got(i) - fl(i) = 1)
                            => got(j) - fl(j) = 1

-----------------------------------------------------------------------------
(* Activity feed (activityController.js).  listActivity reads the Expense   *)
(* and Payment tables across every trip, so feed keeps rows of two trips,   *)
(* each with its tripId and its createdAt.  createdAt defaults to the       *)
(* current timestamp; rows are created one after the other, and the model   *)
(* gives every row its own instant.  An event of the answer keeps the type, *)
(* the trip and the instant of its row; titles, amounts and user names are  *)
(* copied through by the code and are left out.                             *)

TakePerTable == 25      \* take: 25 of both findMany calls
FeedLimit == 30         \* .slice(0, 30)

MaxFeedRows == 27       \* rows created per behaviour, both tables together
MaxFeedPayments == 1    \* Payment rows among them
MaxOtherTripRows == 1   \* rows of the second trip among them

FeedTrips == {"t1", "t2"}
FeedTripMembers == [t \in FeedTrips |->
                      IF t = "t1" THEN {"alice", "bob"} ELSE {"carol"}]
FeedCallers == {"alice", "carol"}
FeedStatuses == {"pending", "declined"}

FeedRows == Len(feed.expenses) + Len(feed.payments)
OtherTripRows ==
    Len(SelectSeq(feed.expenses, LAMBDA r : r.tripId = "t2"))
      + Len(SelectSeq(feed.payments, LAMBDA r : r.tripId = "t2"))

\* where: { trip: { members: { some: { userId } } } }
MemberTripRows(rows, userId) ==
    SelectSeq(rows, LAMBDA r : userId \in FeedTripMembers[r.tripId])

\* Array.prototype.sort with (a, b) => b.createdAt - a.createdAt, and the
\* orderBy: { createdAt: "desc" } of the queries: a stable descending sort
RECURSIVE InsertByCreatedDesc(_, _)
InsertByCreatedDesc(x, sorted) ==
    IF sorted = <<>> THEN <<x>>
    ELSE IF x.createdAt >= Head(sorted).createdAt THEN <<x>> \o sorted
    ELSE <<Head(sorted)>> \o InsertByCreatedDesc(x, Tail(sorted))

RECURSIVE SortByCreatedDesc(_)
SortByCreatedDesc(rows) ==
    IF rows = <<>> THEN <<>>
    ELSE InsertByCreatedDesc(Head(rows), SortByCreatedDesc(Tail(rows)))

Take(rows, n) == SubSeq(rows, 1, Min(n, Len(rows)))

findMany(rows, userId) ==
    Take(SortByCreatedDesc(MemberTripRows(rows, userId)), TakePerTable)

expenseActivity(rows) ==
    [i \in 1..Len(rows) |->
        [type |-> "expense", tripId |-> rows[i].tripId,
         createdAt |-> rows[i].createdAt]]

paymentActivity(rows) ==
    [i \in 1..Len(rows) |->
        [type |-> "payment", tripId |-> rows[i].tripId,
         createdAt |-> rows[i].createdAt]]

listActivity(expenseRows, paymentRows, userId) ==
    Take(SortByCreatedDesc(expenseActivity(findMany(expenseRows, userId))
                             \o paymentActivity(findMany(paymentRows, userId))),
         FeedLimit)

CreateExpenseRow ==
    \E t \in FeedTrips :
       /\ FeedRows < MaxFeedRows
       /\ t = "t2" => OtherTripRows < MaxOtherTripRows
       /\ feed' = [NoFeed EXCEPT
                     !.expenses = Append(feed.expenses,
                                    [tripId |-> t, createdAt |-> FeedRows + 1]),
                     !.payments = feed.payments]
       /\ UNCHANGED <<ledgerVars, socialVars, expReq, allocCall, planCall, sideVars>>

CreatePaymentRow ==
    \E t \in FeedTrips, st \in FeedStatuses :
       /\ FeedRows < MaxFeedRows
       /\ Len(feed.payments) < MaxFeedPayments
       /\ t = "t2" => OtherTripRows < MaxOtherTripRows
       /\ feed' = [NoFeed EXCEPT
                     !.expenses = feed.expenses,
                     !.payments = Append(feed.payments,
                                    [tripId |-> t, status |-> st,
                                     createdAt |-> FeedRows + 1])]
       /\ UNCHANGED <<ledgerVars, socialVars, expReq, allocCall, planCall, sideVars>>

ListActivity ==
    \E u \in FeedCallers :
       /\ feed' = [feed EXCEPT
                     !.caller = u,
                     !.out = listActivity(feed.expenses, feed.payments, u),
                     !.done = TRUE]
       /\ UNCHANGED <<ledgerVars, socialVars, expReq, allocCall, planCall, sideVars>>

InitActivity ==
    /\ feed = NoFeed
    /\ InitSide
    /\ members = InitMembers
    /\ InitSocial
    /\ expenses = <<>>
    /\ payments = <<>>
    /\ reqs = [r \in 1..MaxReqs |-> IdleReq]
    /\ lastResp = NoResp
    /\ expReq = NoCall
    /\ allocCall = NoCall
    /\ planCall = NoCall

NextActivity == CreateExpenseRow \/ CreatePaymentRow \/ ListActivity

SpecActivity == InitActivity /\ [][NextActivity]_vars

\* the events of the caller's trips, of both tables
CallerEvents ==
    LET e == expenseActivity(MemberTripRows(feed.expenses, feed.caller))
        p == paymentActivity(MemberTripRows(feed.payments, feed.caller))
    IN  {e[i] : i \in 1..Len(e)} \cup {p[i] : i \in 1..Len(p)}

FeedEvents == {feed.out[i] : i \in 1..Len(feed.out)}

\* C20: the answer of listActivity holds exactly the min(30, N) latest of the
\* N expense and payment events of the caller's trips, payments of any
\* status, newest first
C20_LatestThirty ==
    feed.done =>
        /\ Len(feed.out) = Min(FeedLimit, Cardinality(CallerEvents))
        /\ Cardinality(FeedEvents) = Len(feed.out)
        /\ FeedEvents \subseteq CallerEvents
        /\ \A x \in CallerEvents \ FeedEvents :
              \A y \in FeedEvents : y.createdAt >= x.createdAt
        /\ \A i \in 1..Len(feed.out) - 1 :
              feed.out[i].createdAt >= feed.out[i + 1].createdAt

\* the parts of C20 that do not depend on the number of events returned:
\* the answer is a duplicate-free list of events of the caller's trips,
\* newest first
FeedSortedAndVisible ==
    feed.done =>
        /\ Cardinality(FeedEvents) = Len(feed.out)
        /\ FeedEvents \subseteq CallerEvents
        /\ \A i \in 1..Len(feed.out) - 1 :
              feed.out[i].createdAt >= feed.out[i + 1].createdAt

\* up to 25 events in each table the answer is the latest min(30, N)
FeedCompleteUpToTake ==
    (/\ feed.done
     /\ Len(MemberTripRows(feed.expenses, feed.caller)) <= TakePerTable
     /\ Len(MemberTripRows(feed.payments, feed.caller)) <= TakePerTable)
        => CallerEvents = FeedEvents

-----------------------------------------------------------------------------
(* Trip creation and update (tripController.js).  A Trip row keeps its      *)
(* name, its status and the users of its TripMember rows; location and      *)
(* dates are copied through and are left out.  A request body carries a     *)
(* name (or none, for an update that leaves it alone) and a status, where   *)
(* "undefined" stands for an absent field.                                  *)

MaxTrips == 2       \* Trip rows created per behaviour

Undefined == "undefined"
TripSchemaStatuses == {"planning", "active", "completed"}
TripRequestStatuses == TripSchemaStatuses \cup {"cancelled", Undefined}
TripNames == {"x", "Lisbon"}
TripCallers == {"alice", "bob"}

TripBodies == [name : TripNames \cup {Undefined}, status : TripRequestStatuses]

\* name: z.string().min(2)
NameOk(name) == name # "x"

\* z.enum(["planning", "active", "completed"]).optional()
StatusOk(status) == status = Undefined \/ status \in TripSchemaStatuses

createTripSchema(body) ==
    body.name # Undefined /\ NameOk(body.name) /\ StatusOk(body.status)

updateTripSchema(body) ==
    (body.name = Undefined \/ NameOk(body.name)) /\ StatusOk(body.status)

createTrip(rows, userId, body) ==
    IF ~createTripSchema(body) THEN [status |-> 400, rows |-> rows]
    ELSE [status |-> 200,
          rows |-> Append(rows,
                     [name |-> body.name,
                      status |-> IF body.status = Undefined THEN "planning"
                                 ELSE body.status,
                      members |-> {userId}])]

updateTrip(rows, tripId, userId, body) ==
    IF ~updateTripSchema(body) THEN [status |-> 400, rows |-> rows]
    ELSE IF ~(tripId \in 1..Len(rows) /\ userId \in rows[tripId].members)
    THEN [status |-> 403, rows |-> rows]
    ELSE [status |-> 200,
          rows |-> [rows EXCEPT ![tripId] =
                      [@ EXCEPT
                         !.name = IF body.name # Undefined THEN body.name ELSE @,
                         !.status = IF body.status # Undefined THEN body.status
                                    ELSE @]]]

CreateTrip ==
    \E u \in TripCallers, b \in TripBodies :
       /\ Len(trips.rows) < MaxTrips
       /\ LET res == createTrip(trips.rows, u, b)
          IN  trips' = [rows |-> res.rows,
                        req |-> [op |-> "createTrip", userId |-> u, body |-> b,
                                 tripId |-> Len(trips.rows) + 1],
                        status |-> res.status]
       /\ UNCHANGED <<coreVars, receipt, itemCall, readResp, chooseCall, client>>

UpdateTrip ==
    \E u \in TripCallers, b \in TripBodies, t \in 1..MaxTrips :
       /\ LET res == updateTrip(trips.rows, t, u, b)
          IN  trips' = [rows |-> res.rows,
                        req |-> [op |-> "updateTrip", userId |-> u, body |-> b,
                                 tripId |-> t],
                        status |-> res.status]
       /\ UNCHANGED <<coreVars, receipt, itemCall, readResp, chooseCall, client>>

InitTrip ==
    /\ InitSide
    /\ InitCore

NextTrip == CreateTrip \/ UpdateTrip

SpecTrip == InitTrip /\ [][NextTrip]_vars

\* the last request is well-formed apart from its status, and its caller may
\* act: anyone may create a trip, a member may update his trip
AuthorizedTripRequest ==
    /\ trips.req.op \in {"createTrip", "updateTrip"}
    /\ IF trips.req.op = "createTrip"
       THEN trips.req.body.name = "Lisbon"
       ELSE /\ trips.req.body.name \in {Undefined, "Lisbon"}
            /\ trips.req.tripId \in 1..Len(trips.rows)
            /\ trips.req.userId \in trips.rows[trips.req.tripId].members

TripRequestPersisted ==
    /\ trips.status = 200
    /\ trips.req.tripId \in 1..Len(trips.rows)
    /\ trips.rows[trips.req.tripId].status = trips.req.body.status

\* C21: createTrip and updateTrip called with status "cancelled" by an
\* authorized caller succeed and store that status
C21_CancelledAccepted ==
    (AuthorizedTripRequest /\ trips.req.body.status = "cancelled")
        => TripRequestPersisted

\* the same requests with planning, active or completed succeed and store
\* the status
SchemaStatusesAccepted ==
    (AuthorizedTripRequest /\ trips.req.body.status \in TripSchemaStatuses)
        => TripRequestPersisted

-----------------------------------------------------------------------------
(* Receipt processing (friendsController processReceipt, parseReceipt.js    *)
(* verifyWithLLM).  The rule-based result is kept by the fields that        *)
(* shouldVerify reads: confidence in tenths, totals and item prices in      *)
(* cents, and the number of warnings.  What the verifier's endpoint does is *)
(* an input of the request.                                                 *)

RuleConfidences == {0, 5, 9}
RuleTotals == {0, 1000}
RuleItems == {<<>>, <<1000>>, <<400, 600>>, <<400, 500>>}
RuleWarnings == {0, 1}

RuleResults ==
    [confidence : RuleConfidences, total : RuleTotals, subtotal : RuleTotals,
     items : RuleItems, warnings : RuleWarnings]

\* the endpoint: fetch rejects; answers with a non-2xx status; answers 200
\* with a body that is no JSON; answers JSON whose message content is no
\* JSON; answers JSON whose content is the JSON value null; answers a
\* JSON object
LlmOutcomes == {"fetchThrows", "httpError", "bodyNotJson", "contentNotJson",
                "contentNull", "object"}

LlmFailures == {"fetchThrows", "httpError", "bodyNotJson", "contentNotJson"}

shouldVerify(ruleResult) ==
    LET itemSum == SumSeq(ruleResult.items)
        hasTotals == ruleResult.total > 0
                       /\ (ruleResult.subtotal > 0 \/ itemSum > 0)
        sumMatches == IF ruleResult.subtotal > 0
                      THEN Abs(itemSum - ruleResult.subtotal) <= 25
                      ELSE TRUE
    IN  \/ (ruleResult.confidence > 0 /\ ruleResult.confidence < 8)
        \/ ~hasTotals
        \/ Len(ruleResult.items) < 2
        \/ ~sumMatches
        \/ ruleResult.warnings > 0

Threw == [threw |-> TRUE]

RuleAnswer(ruleResult, extraWarnings) ==
    [threw |-> FALSE, source |-> "rules", result |-> ruleResult,
     warnings |-> ruleResult.warnings + extraWarnings]

verifyWithLLM(configured, ruleResult, llm) ==
    IF ~configured THEN RuleAnswer(ruleResult, 0)
    ELSE IF ~shouldVerify(ruleResult) THEN RuleAnswer(ruleResult, 0)
    ELSE IF llm = "fetchThrows" THEN RuleAnswer(ruleResult, 1)
    ELSE IF llm = "httpError" THEN RuleAnswer(ruleResult, 1)
    ELSE IF llm = "bodyNotJson" THEN Threw          \* await r.json() rejects
    ELSE IF llm \in {"contentNotJson", "contentNull"}
    THEN RuleAnswer(ruleResult, 1)                  \* caught by the inner try
    ELSE [threw |-> FALSE, source |-> "rules+llm-check", result |-> "llm",
          warnings |-> 0]

processReceipt(req) ==
    IF ~req.rawTextOk THEN [status |-> 400]
    ELSE LET verified == verifyWithLLM(req.configured, req.rule, req.llm)
         IN  IF verified.threw THEN [status |-> 500]
             ELSE [status |-> 200, source |-> verified.source,
                   result |-> verified.result, warnings |-> verified.warnings]

InitReceipt ==
    /\ receipt \in {[rawTextOk |-> t, configured |-> c, rule |-> r, llm |-> l,
                     done |-> FALSE, res |-> [status |-> 0]] :
                       t \in BOOLEAN, c \in BOOLEAN, r \in RuleResults,
                       l \in LlmOutcomes}
    /\ trips = NoTrips
    /\ itemCall = NoCall
    /\ readResp = NoRead
    /\ chooseCall = NoCall
    /\ client = NoClient
    /\ InitCore

ProcessReceipt ==
    /\ ~receipt.done
    /\ receipt' = [receipt EXCEPT !.done = TRUE, !.res = processReceipt(receipt)]
    /\ UNCHANGED <<coreVars, trips, itemCall, readResp, chooseCall, client>>

NextReceipt == ProcessReceipt

SpecReceipt == InitReceipt /\ [][NextReceipt]_vars

\* C22: with a well-formed request, when the verifier is not configured or
\* its call fails (fetch rejects, non-2xx status, unparsable body or content)
\* processReceipt answers 200 with the rule-based result
C22_VerifierFailureNeverFails ==
    (/\ receipt.done
     /\ receipt.rawTextOk
     /\ (~receipt.configured \/ receipt.llm \in LlmFailures))
        => /\ receipt.res.status = 200
           /\ receipt.res.source = "rules"
           /\ receipt.res.result = receipt.rule

\* the same without the case of a 200 answer whose body is no JSON
RuleFallbackExceptBody ==
    (/\ receipt.done
     /\ receipt.rawTextOk
     /\ (~receipt.configured \/ receipt.llm \in LlmFailures \ {"bodyNotJson"}))
        => /\ receipt.res.status = 200
           /\ receipt.res.source = "rules"
           /\ receipt.res.result = receipt.rule

-----------------------------------------------------------------------------
(* The per-item even split of the itemized path (expenseController.js       *)
(* 200-218), run on one item: the price arrives in mills, the assignees are *)
(* the array assignedUserIds, which may name a user more than once.         *)

MaxItemCents == 7       \* item prices of 1..MaxItemCents cents, and the scenarios
MaxAssignees == 3       \* assignees per item

SplitPrices == {10 * c : c \in 1..MaxItemCents} \cup {4, 1000, 3335, 10000}
SplitAssignees == UNION {[1..n -> Users] : n \in 1..MaxAssignees}

InitItem ==
    /\ itemCall \in {[price |-> p, ids |-> a, out |-> <<>>, done |-> FALSE] :
                        p \in SplitPrices, a \in SplitAssignees}
    /\ trips = NoTrips
    /\ receipt = NoCall
    /\ readResp = NoRead
    /\ chooseCall = NoCall
    /\ client = NoClient
    /\ InitCore

SplitItem ==
    /\ ~itemCall.done
    /\ itemCall' = [itemCall EXCEPT
                      !.out = SubtotalCentsByUser(<<>>,
                                <<Item(itemCall.price, itemCall.ids)>>),
                      !.done = TRUE]
    /\ UNCHANGED <<coreVars, trips, receipt, readResp, chooseCall, client>>

NextItem == SplitItem

SpecItem == InitItem /\ [][NextItem]_vars

\* floor(p/n) cents plus one extra cent for the first p mod n positions
PositionCents(p, n, k) == (p \div n) + (IF k - 1 < p % n THEN 1 ELSE 0)

\* C24: an item of p cents with n assignees gives the assignee at position k
\* (from 0) floor(p/n) cents plus one cent if k < p mod n; the cents of the
\* item sum to p, and a single assignee is charged the full price
C24_ItemSplitEvenly ==
    itemCall.done =>
        LET p == toCents(itemCall.price)
            n == Len(itemCall.ids)
        IN  /\ \A u \in Users :
                  MapGet(itemCall.out, u)
                    = SumSeq([k \in 1..n |->
                               IF itemCall.ids[k] = u THEN PositionCents(p, n, k)
                               ELSE 0])
            /\ Keys(itemCall.out) = Range(itemCall.ids)
            /\ SumEntries(itemCall.out) = p
            /\ n = 1 => itemCall.out = <<<<itemCall.ids[1], p>>>>

\* 10.00 among alice, bob and carol: 334, 333, 333
C24_Witness ==
    /\ itemCall.done
    /\ itemCall.price = 10000
    /\ itemCall.ids = <<"alice", "bob", "carol">>
    /\ itemCall.out = <<<<"alice", 334>>, <<"bob", 333>>, <<"carol", 333>>>>

-----------------------------------------------------------------------------
(* The settlement planner of utils/calculateBalances.js, buildSettlements,  *)
(* next to the inline planner of getTripBalances.  buildSettlements rounds   *)
(* every amount with round2, so it computes on whole cents; its thresholds   *)
(* are 0.009 where the inline planner has 0.01.                             *)

\* if (b < -0.009) debtors.push({ userId, amount: round2(-b) })
RECURSIVE BuildDebtors(_, _)
BuildDebtors(bal, ids) ==
    IF ids = <<>> THEN <<>>
    ELSE (IF bal[Head(ids)] <= -1
          THEN <<[odlUserId |-> Head(ids), amount |-> 0 - bal[Head(ids)]]>>
          ELSE <<>>) \o BuildDebtors(bal, Tail(ids))

\* if (b > 0.009) creditors.push({ userId, amount: round2(b) })
RECURSIVE BuildCreditors(_, _)
BuildCreditors(bal, ids) ==
    IF ids = <<>> THEN <<>>
    ELSE (IF bal[Head(ids)] >= 1
          THEN <<[odlUserId |-> Head(ids), amount |-> bal[Head(ids)]]>>
          ELSE <<>>) \o BuildCreditors(bal, Tail(ids))

\* while (i < debtors.length && j < creditors.length) { ... }
RECURSIVE BuildLoop(_, _, _, _, _)
BuildLoop(debtors, creditors, i, j, settlements) ==
    IF ~(i <= Len(debtors) /\ j <= Len(creditors)) THEN settlements
    ELSE LET pay == Min(debtors[i].amount, creditors[j].amount)
             out == IF pay >= 1
                    THEN Append(settlements,
                                [from   |-> debtors[i].odlUserId,
                                 to     |-> creditors[j].odlUserId,
                                 amount |-> pay])
                    ELSE settlements
             d2 == [debtors EXCEPT ![i].amount = @ - pay]
             c2 == [creditors EXCEPT ![j].amount = @ - pay]
         IN BuildLoop(d2, c2,
                      IF d2[i].amount <= 0 THEN i + 1 ELSE i,
                      IF c2[j].amount <= 0 THEN j + 1 ELSE j,
                      out)

buildSettlements(bal, ids) ==
    BuildLoop(SortByAmountDesc(BuildDebtors(bal, ids)),
              SortByAmountDesc(BuildCreditors(bal, ids)), 1, 1, <<>>)

InitSettle ==
    /\ planCall \in {[bal |-> b, out |-> <<>>, built |-> <<>>, done |-> FALSE] :
                        b \in PlanInputs}
    /\ members = InitMembers
    /\ InitSocial
    /\ expenses = <<>>
    /\ payments = <<>>
    /\ reqs = [r \in 1..MaxReqs |-> IdleReq]
    /\ lastResp = NoResp
    /\ expReq = NoCall
    /\ allocCall = NoCall
    /\ feed = NoFeed
    /\ InitSide

\* both planners run on the same balance map
PlanBoth ==
    /\ ~planCall.done
    /\ planCall' = [planCall EXCEPT
                      !.out = Settlements(planCall.bal, UserOrder),
                      !.built = buildSettlements(planCall.bal, UserOrder),
                      !.done = TRUE]
    /\ UNCHANGED <<ledgerVars, socialVars, expReq, allocCall, feed, sideVars>>

NextSettle == PlanBoth

SpecSettle == InitSettle /\ [][NextSettle]_vars

\* C26: for every balance map in whole cents the inline planner of
\* getTripBalances and buildSettlements emit the same ordered list of
\* (from, to, amount) transfers, one-cent balances and transfers included
C26_PlannersAgree ==
    planCall.done => planCall.out = planCall.built

\* where buildSettlements emits no transfer of one cent, the planners agree
PlannersAgreeWithoutCentTransfers ==
    (/\ planCall.done
     /\ \A n \in 1..Len(planCall.built) : planCall.built[n].amount # 1)
        => planCall.out = planCall.built

-----------------------------------------------------------------------------
(* allocateProportionally under scaling: one call on (shares, pool), one on *)
(* (k * shares, k * pool) and one on (k * shares, pool).                    *)

MaxScale == 3           \* scaling factors 1..MaxScale
MaxScaleShare == 2      \* per-user subtotals 0..MaxScaleShare cents
MaxScalePool == 3       \* pools 0..MaxScalePool cents

ScaleInputs ==
    UNION {{[n \in 1..Len(us) |-> <<us[n], sh[n]>>] :
               us \in InjSeqs(TripUsers, m), sh \in [1..m -> 0..MaxScaleShare]} :
           m \in 1..Cardinality(TripUsers)}

ScaleShares(entries, k) ==
    [i \in 1..Len(entries) |-> <<entries[i][1], k * entries[i][2]>>]

InitScale ==
    /\ allocCall \in {[in |-> e, pool |-> p, k |-> k, out |-> <<>>,
                       scaled |-> <<>>, sharesScaled |-> <<>>, done |-> FALSE] :
                         e \in ScaleInputs, p \in 0..MaxScalePool, k \in 1..MaxScale}
    /\ members = InitMembers
    /\ expenses = <<>>
    /\ payments = <<>>
    /\ reqs = [r \in 1..MaxReqs |-> IdleReq]
    /\ lastResp = NoResp
    /\ expReq = NoCall
    /\ planCall = NoCall
    /\ feed = NoFeed
    /\ InitSide
    /\ InitSocial

AllocateScaled ==
    /\ ~allocCall.done
    /\ allocCall' =
          [allocCall EXCEPT
             !.out = allocateProportionally(allocCall.in, allocCall.pool),
             !.scaled = allocateProportionally(ScaleShares(allocCall.in, allocCall.k),
                                               allocCall.k * allocCall.pool),
             !.sharesScaled = allocateProportionally(
                                  ScaleShares(allocCall.in, allocCall.k), allocCall.pool),
             !.done = TRUE]
    /\ UNCHANGED <<ledgerVars, expReq, planCall, feed, socialVars, sideVars>>

NextScale == AllocateScaled

SpecScale == InitScale /\ [][NextScale]_vars

\* C25 (as stated): for every k >= 1, every shares map and every pool,
\* allocateProportionally(k * shares, k * pool) gives each user k times what
\* allocateProportionally(shares, pool) gives that user
C25_ScalingLaw_AnyInput ==
    allocCall.done =>
        \A u \in Keys(allocCall.in) :
            MapGet(allocCall.scaled, u) = allocCall.k * MapGet(allocCall.out, u)

\* C25 (amended): scaling the shares alone leaves the allocation unchanged;
\* scaling shares and pool together gives amounts that sum to k times the
\* unscaled sum and differ from k times the unscaled amount by at most k
\* cents per user, and that are exactly k times the unscaled amounts when
\* pool * share / sum(shares) is a whole number for every user
C25_ScalingLaw ==
    allocCall.done =>
        LET total == SumEntries(allocCall.in)
            whole == total > 0 /\ \A i \in 1..Len(allocCall.in) :
                        (allocCall.pool * allocCall.in[i][2]) % total = 0
        IN  /\ allocCall.sharesScaled = allocCall.out
            /\ SumEntries(allocCall.scaled) = allocCall.k * SumEntries(allocCall.out)
            /\ \A u \in Keys(allocCall.in) :
                  /\ Abs(MapGet(allocCall.scaled, u)
                           - allocCall.k * MapGet(allocCall.out, u)) <= allocCall.k
                  /\ whole => MapGet(allocCall.scaled, u)
                                = allocCall.k * MapGet(allocCall.out, u)

\* one cent between two equal shares goes to the first user; two cents between
\* the doubled shares are one cent each
C25_Witness ==
    /\ allocCall.done
    /\ allocCall.k = 2
    /\ allocCall.in = <<<<"alice", 1>>, <<"bob", 1>>>>
    /\ allocCall.pool = 1
    /\ allocCall.out = <<<<"alice", 1>>, <<"bob", 0>>>>
    /\ MapGet(allocCall.scaled, "alice") = 1
    /\ MapGet(allocCall.scaled, "bob") = 1
    /\ allocCall.sharesScaled = allocCall.out

-----------------------------------------------------------------------------
(* The trip-scoped reads: getTrip and getTripBalances (tripController.js),  *)
(* listPayments (paymentController.js) and listExpenses                     *)
(* (expenseController.js), on the trip of the ledger.  Each handler is one  *)
(* read of the store followed by a computation, so it is one step.  The     *)
(* answer keeps the rows and the figures computed from them; names and      *)
(* dates are left out.                                                      *)

ReadCallers == {"alice", "dave"}     \* the owner, and a user who is no member

NoBody == [none |-> TRUE]
Forbidden == [status |-> 403, body |-> NoBody]

\* the Payment rows of the trip that exist
PaymentRows(pays) == SelectSeq(pays, LAMBDA p : p.exists)

getTrip(ms, exps, pays, userId) ==
    IF userId \notin MemberIds(ms) THEN Forbidden
    ELSE [status |-> 200,
          body |-> [expenses |-> exps, payments |-> PaymentRows(pays),
                    balances |-> calculateBalancesWithPayments(
                                     MemberIdSeq(ms), exps, pays)]]

\* trip.payments.reduce((sum, p) => sum + parseFloat(p.amount.toString()), 0)
RECURSIVE SumPaymentAmounts(_)
SumPaymentAmounts(pays) ==
    IF pays = <<>> THEN 0 ELSE Head(pays).amount + SumPaymentAmounts(Tail(pays))

getTripBalances(ms, exps, pays, userId) ==
    IF userId \notin MemberIds(ms) THEN Forbidden
    ELSE LET balances == calculateBalancesWithPayments(MemberIdSeq(ms), exps, pays)
         IN  [status |-> 200,
              body |-> [balances |-> balances,
                        settlements |-> Settlements(balances, MemberIdSeq(ms)),
                        totalSettled |-> SumPaymentAmounts(PaymentRows(pays)),
                        paymentCount |-> Len(PaymentRows(pays))]]

listPayments(ms, pays, userId) ==
    IF userId \notin MemberIds(ms) THEN Forbidden
    ELSE [status |-> 200, body |-> [payments |-> PaymentRows(pays)]]

\* no lookup of the caller's TripMember row
listExpenses(exps, userId) == [status |-> 200, body |-> [expenses |-> exps]]

Answer(op, userId, res) ==
    /\ readResp' = [op |-> op, userId |-> userId, status |-> res.status,
                    body |-> res.body]
    /\ UNCHANGED <<coreVars, trips, receipt, itemCall, chooseCall, client>>

GetTrip == \E u \in ReadCallers :
    Answer("getTrip", u, getTrip(members, expenses, payments, u))

GetTripBalances == \E u \in ReadCallers :
    Answer("getTripBalances", u, getTripBalances(members, expenses, payments, u))

ListPayments == \E u \in ReadCallers :
    Answer("listPayments", u, listPayments(members, payments, u))

ListExpenses == \E u \in ReadCallers :
    Answer("listExpenses", u, listExpenses(expenses, u))

InitRead == InitSide /\ InitCore

NextRead ==
    \/ \E c \in LedgerPayers, b \in LedgerBodies : CreateExpense(c, b)
    \/ NextPay
    \/ GetTrip
    \/ GetTripBalances
    \/ ListPayments
    \/ ListExpenses

SpecRead == InitRead /\ [][NextRead]_vars

\* C27: a caller who is no member of the trip gets an authorization error
\* from every trip-scoped read, and nothing of the trip's contents
C27_ReadsOnlyByMembers ==
    (readResp.op # "none" /\ readResp.userId \notin MemberIds(members))
        => readResp.status = 403 /\ readResp.body = NoBody

\* the same for getTrip, getTripBalances and listPayments
GuardedReadsOnlyByMembers ==
    (/\ readResp.op \in {"getTrip", "getTripBalances", "listPayments"}
     /\ readResp.userId \notin MemberIds(members))
        => readResp.status = 403 /\ readResp.body = NoBody

\* the sum of the amounts of the confirmed payments, in cents
RECURSIVE SumConfirmed(_)
SumConfirmed(pays) ==
    IF pays = <<>> THEN 0
    ELSE (IF Head(pays).exists /\ Head(pays).status = "confirmed"
          THEN Head(pays).amount ELSE 0) + SumConfirmed(Tail(pays))

AnsweredBalances ==
    /\ readResp' # readResp
    /\ readResp'.op = "getTripBalances"
    /\ readResp'.status = 200

\* C28: the totalSettled of getTripBalances is the sum of the amounts of the
\* trip's confirmed payments; pending and declined payments add nothing
C28_TotalSettledIsConfirmed ==
    [][AnsweredBalances => readResp'.body.totalSettled = SumConfirmed(payments)]_vars

\* totalSettled is the sum over the payments of every status
TotalSettledIsAllPayments ==
    [][AnsweredBalances
         => readResp'.body.totalSettled = SumPaymentAmounts(PaymentRows(payments))]_vars

-----------------------------------------------------------------------------
(* choosePricesToMatchTarget (parseReceipt.js): a subset-sum table over the *)
(* candidate prices.  The candidates come from getMoneyFromLine, which      *)
(* rounds them to two decimals, so prices and target are whole cents here.  *)
(* dp is the Map in insertion order; a node keeps the indices of its chain  *)
(* of prev links, oldest first.  Indices count from 0 as in the code.       *)

MaxPrices == 4          \* candidate prices per call
MaxPriceCents == 4      \* prices of 1..MaxPriceCents cents
MaxTarget == 7          \* targets of 1..MaxTarget cents

\* the JS null, and a returned array of indices
Null == [isNull |-> TRUE, picked |-> <<>>]
Picked(indices) == [isNull |-> FALSE, picked |-> indices]
\* bestSum: null until a sum is found
NoSum == [found |-> FALSE, sum |-> 0]
FoundSum(x) == [found |-> TRUE, sum |-> x]
ToleranceCents == 1     \* the toleranceCents the caller passes

DpHas(dp, sum) == \E n \in 1..Len(dp) : dp[n].sum = sum
DpGet(dp, sum) == dp[CHOOSE n \in 1..Len(dp) : dp[n].sum = sum]

\* for (const [sum, node] of dp.entries()) { if (!next.has(ns)) next.set(...) }
RECURSIVE DpExtend(_, _, _, _)
DpExtend(entries, next, c, i) ==
    IF entries = <<>> THEN next
    ELSE LET ns == Head(entries).sum + c
         IN  DpExtend(Tail(entries),
                      IF DpHas(next, ns) THEN next
                      ELSE Append(next, [sum |-> ns,
                                         picked |-> Append(Head(entries).picked, i)]),
                      c, i)

\* for (let i = 0; i < cents.length; i++) { ...; dp = next }
RECURSIVE DpTable(_, _, _)
DpTable(dp, cents, i) ==
    IF i >= Len(cents) THEN dp
    ELSE DpTable(DpExtend(dp, dp, cents[i + 1], i), cents, i + 1)

MutBestSumBelowOnly(dp, targetC, d, tolerance) ==
    \* looks for the target and for sums below it, never above
    IF \E e \in 0..tolerance : DpHas(dp, targetC - e)
    THEN FoundSum(targetC - (CHOOSE e \in 0..tolerance :
                                /\ DpHas(dp, targetC - e)
                                /\ \A f \in 0..(e - 1) : ~DpHas(dp, targetC - f)))
    ELSE NoSum

\* for (let d = 0; d <= toleranceCents; d++) { ... }
RECURSIVE BestSum(_, _, _, _)
BestSum(dp, targetC, d, tolerance) ==
    IF d > tolerance THEN NoSum
    ELSE IF DpHas(dp, targetC - d) THEN FoundSum(targetC - d)
    ELSE IF DpHas(dp, targetC + d) THEN FoundSum(targetC + d)
    ELSE BestSum(dp, targetC, d + 1, tolerance)

choosePricesToMatchTarget(cents, targetC, tolerance) ==
    LET dp == DpTable(<<[sum |-> 0, picked |-> <<>>]>>, cents, 0)
        bestSum == BestSum(dp, targetC, 0, tolerance)
    IN  IF ~bestSum.found THEN Null ELSE Picked(DpGet(dp, bestSum.sum).picked)

ChoosePrices == UNION {[1..n -> 1..MaxPriceCents] : n \in 0..MaxPrices}

InitChoose ==
    /\ chooseCall \in {[prices |-> ps, target |-> t, out |-> Null, done |-> FALSE] :
                          ps \in ChoosePrices, t \in 1..MaxTarget}
    /\ trips = NoTrips
    /\ receipt = NoCall
    /\ itemCall = NoCall
    /\ readResp = NoRead
    /\ client = NoClient
    /\ InitCore

Choose ==
    /\ ~chooseCall.done
    /\ chooseCall' = [chooseCall EXCEPT
                        !.out = choosePricesToMatchTarget(chooseCall.prices,
                                    chooseCall.target, ToleranceCents),
                        !.done = TRUE]
    /\ UNCHANGED <<coreVars, trips, receipt, itemCall, readResp, client>>

NextChoose == Choose

SpecChoose == InitChoose /\ [][NextChoose]_vars

\* the sums of the subsets of the prices
SubsetSums(prices) ==
    {SumSeq([k \in 1..Len(prices) |-> IF k \in S THEN prices[k] ELSE 0]) :
        S \in SUBSET (1..Len(prices))}

PickedSum(prices, picked) ==
    SumSeq([n \in 1..Len(picked) |-> prices[picked[n] + 1]])

\* C29: for a positive target the result is a strictly increasing list of
\* indices whose prices sum to within one cent of the target whenever a
\* subset with such a sum exists, to the target itself when a subset sums to
\* it; the result is null when no subset sums to within one cent
C29_SubsetWithinOneCent ==
    chooseCall.done =>
        LET sums == SubsetSums(chooseCall.prices)
            t == chooseCall.target
            out == chooseCall.out.picked
        IN  IF \E x \in sums : Abs(x - t) <= 1
            THEN /\ ~chooseCall.out.isNull
                 /\ \A n \in 1..Len(out) : out[n] \in 0..(Len(chooseCall.prices) - 1)
                 /\ \A n \in 1..(Len(out) - 1) : out[n] < out[n + 1]
                 /\ Abs(PickedSum(chooseCall.prices, out) - t) <= 1
                 /\ t \in sums => PickedSum(chooseCall.prices, out) = t
            ELSE chooseCall.out.isNull

\* 1, 3 and 3 cents for a target of 5: no subset sums to 5, and the subset
\* that sums to 4 is chosen before the one that sums to 6
C29_Witness ==
    /\ chooseCall.done
    /\ chooseCall.prices = <<1, 3, 3>>
    /\ chooseCall.target = 5
    /\ chooseCall.out = Picked(<<0, 1>>)

-----------------------------------------------------------------------------
(* The mobile client's session (utils/api.ts and AuthContext).  authToken   *)
(* is the module variable of api.ts, store the expo-secure-store with the   *)
(* three keys the client uses, user the state of AuthProvider.  header is   *)
(* the Authorization token of the latest apiCall, calls counts the calls    *)
(* other than /auth/login, and session remembers whether the                *)
(* latest of login and AuthContext logout was a login ("in") or a logout    *)
(* that followed one ("out").                                               *)

MaxCalls == 3           \* apiCalls other than /auth/login per behaviour

TOKEN_KEY == "token"
Tokens == {"t1", "t2"}
UserOf(token) == IF token = "t1" THEN "alice" ELSE "bob"

\* if (authToken) return authToken; const t = await getToken(); if (t) authToken = t
ensureAuthToken(c) ==
    IF c.authToken # NoToken THEN c
    ELSE [c EXCEPT !.authToken = c.store[TOKEN_KEY]]

\* apiCall: the Authorization header is set when ensureAuthToken has a token
apiCall(c) ==
    LET e == ensureAuthToken(c)
    IN  [e EXCEPT !.header = e.authToken]

saveToken(c, token) ==
    [c EXCEPT !.store[TOKEN_KEY] = token, !.authToken = token]

deleteToken(c) ==
    [c EXCEPT !.store[TOKEN_KEY] = NoToken, !.authToken = NoToken]

\* api.ts login: POST /auth/login through apiCall, then saveToken(data.token)
apiLogin(c, token) == saveToken(apiCall(c), token)

\* AuthProvider.login
login(c, token) ==
    LET a == apiLogin(c, token)
    IN  [a EXCEPT !.store.authToken = token,
                  !.store.user = UserOf(token),
                  !.user = UserOf(token)]

\* AuthProvider.logout
logout(c) ==
    [c EXCEPT !.store.authToken = NoToken,
              !.store.user = NoToken,
              !.authToken = NoToken,
              !.user = NoToken]

\* a start of the app: module and component state are fresh, the secure
\* store is kept, and loadStoredAuth runs
loadStoredAuth(c) ==
    LET fresh == [c EXCEPT !.authToken = NoToken, !.user = NoToken]
    IN  IF c.store.authToken # NoToken /\ c.store.user # NoToken
        THEN [fresh EXCEPT !.authToken = c.store.authToken, !.user = c.store.user]
        ELSE fresh

InitClient ==
    /\ client = NoClient
    /\ trips = NoTrips
    /\ receipt = NoCall
    /\ itemCall = NoCall
    /\ readResp = NoRead
    /\ chooseCall = NoCall
    /\ InitCore

clientRest == <<coreVars, trips, receipt, itemCall, readResp, chooseCall>>

\* the server accepts the credentials and issues a token
Login ==
    /\ \E token \in Tokens :
          client' = [login(client, token) EXCEPT !.session = "in"]
    /\ UNCHANGED clientRest

\* the server rejects the credentials: apiCall throws after sending
LoginRejected ==
    /\ apiCall(client) # client
    /\ client' = apiCall(client)
    /\ UNCHANGED clientRest

Logout ==
    /\ client' = [logout(client) EXCEPT
                    !.session = IF client.session = "in" THEN "out" ELSE @]
    /\ UNCHANGED clientRest

\* api.ts logout
ApiLogout ==
    /\ deleteToken(client) # client
    /\ client' = deleteToken(client)
    /\ UNCHANGED clientRest

\* any request of the app other than /auth/login
ApiCall ==
    /\ client.calls < MaxCalls
    /\ client' = [apiCall(client) EXCEPT !.calls = @ + 1]
    /\ UNCHANGED clientRest

Restart ==
    /\ loadStoredAuth(client) # client
    /\ client' = loadStoredAuth(client)
    /\ UNCHANGED clientRest

NextClient ==
    \/ Login
    \/ LoginRejected
    \/ Logout
    \/ ApiLogout
    \/ ApiCall
    \/ Restart

SpecClient == InitClient /\ [][NextClient]_vars

IsApiCall == client'.calls = client.calls + 1
IsLogout == client.session = "in" /\ client'.session = "out"

\* C30: after a successful login followed by the AuthContext logout no
\* apiCall attaches an Authorization token until the next login, and the
\* logout leaves no token in memory or under the secure-store key that
\* ensureAuthToken reads
C30_NoTokenAfterLogout ==
    [][/\ (client.session = "out" /\ IsApiCall) => client'.header = NoToken
       /\ IsLogout => /\ client'.authToken = NoToken
                      /\ client'.store[TOKEN_KEY] = NoToken]_vars

\* what the AuthContext logout does clear: the in-memory token, the user and
\* the keys 'authToken' and 'user', so that the next start of the app loads
\* no session of its own
LogoutClearsAuthContextKeys ==
    [][IsLogout => /\ client'.authToken = NoToken
                   /\ client'.user = NoToken
                   /\ client'.store.authToken = NoToken
                   /\ client'.store.user = NoToken]_vars

\* a call carries a token exactly when one is in memory or under TOKEN_KEY
HeaderFromMemoryOrTokenKey ==
    [][IsApiCall =>
         client'.header = IF client.authToken # NoToken THEN client.authToken
                          ELSE client.store[TOKEN_KEY]]_vars


=============================================================================
